---- MODULE Spec2Model ----
(***************************************************************************)
(* Model of the story / character tools of lectura-multijugador:           *)
(*   agent_tools/agente_creador_historia.py    create_historia             *)
(*   agent_tools/agente_creador_personajes.py  create_personaje            *)
(*   agent_story_orchestrator.py               create_historia,            *)
(*                                             create_personaje,           *)
(*                                             create_contenedor_historia  *)
(*   models/models.py                          Historia, Personaje,        *)
(*                                             ContenedorHistoria          *)
(*                                                                         *)
(* Encoding of Python values.  A value that may be None is an option:      *)
(* None is <<>> and a value v is <<v>>.  A dict (keyword arguments, a raw  *)
(* character mapping) is a function whose DOMAIN is the set of keys the    *)
(* dict holds, so "k in d" is k \in DOMAIN d.  A validated pydantic object *)
(* is a record over all its fields: a field that cannot be None holds the  *)
(* bare value, an Optional field holds an option.                          *)
(***************************************************************************)
EXTENDS Integers, Sequences, FiniteSets, TLC

\* ---------------------------------------------------------------- bounds
\* longest character list the caller passes
MaxLen == 2
\* number of uuid.uuid4() draws in one behaviour
MaxUuid == 6
\* last instant of the clock
MaxClock == 1

\* ------------------------------------------------------- Python values
None == <<>>
Some(v) == <<v>>
IsNone(o) == o = <<>>
Get(o) == o[1]

\* d[k] = v on a dict (the key is added when the dict lacks it)
SetItem(d, k, v) == [x \in (DOMAIN d) \cup {k} |-> IF x = k THEN v ELSE d[x]]

\* mutant of Uuid4: uuid4 returns the same value every time
Uuid4Repetido(n) == "uuid-1"

\* the n-th value str(uuid.uuid4()) returns in a behaviour: uuid4 never
\* returns a value it, or anybody else, produced before
Uuid4(n) == "uuid-" \o ToString(n)

\* datetime.now(timezone.utc).isoformat() at instant t
IsoFormat(t) == "2025-01-01T00:00:0" \o ToString(t) \o "+00:00"

\* ------------------------------------------------------------- models
HistoriaFields ==
    {"story_id", "titulo", "descripcion", "generos", "dificultad",
     "imagen_portada", "min_jugadores", "max_jugadores", "autor_id",
     "fecha_creacion", "fecha_modificacion", "estado"}
\* Field(...): the keyword must be passed
HistoriaRequired ==
    {"story_id", "titulo", "min_jugadores", "max_jugadores", "autor_id",
     "fecha_creacion", "fecha_modificacion", "estado"}
\* Optional[...]: None is accepted
HistoriaOptional ==
    {"descripcion", "generos", "dificultad", "imagen_portada", "estado"}

PersonajeFields ==
    {"personaje_id", "nombre", "descripcion", "story_id", "rol",
     "habilidades", "nivel_poder", "imagen_perfil", "edad", "origen",
     "creador_id", "fecha_creacion", "fecha_modificacion", "estado"}
PersonajeRequired ==
    {"personaje_id", "nombre", "story_id", "creador_id", "fecha_creacion",
     "fecha_modificacion", "estado"}
PersonajeOptional ==
    {"descripcion", "rol", "habilidades", "nivel_poder", "imagen_perfil",
     "edad", "origen", "estado"}

\* pydantic's validation of keyword arguments kw against a model: every
\* required field is passed, and None only where the field is Optional
Validates(kw, fields, required, optional) ==
    /\ required \subseteq DOMAIN kw
    /\ \A k \in (DOMAIN kw) \cap fields : IsNone(kw[k]) => k \in optional

\* the object pydantic builds from validated kw: unknown keys are ignored,
\* an Optional field that was not passed is None
Build(kw, fields, optional) ==
    [k \in fields |->
        IF k \in DOMAIN kw
        THEN IF k \in optional THEN kw[k] ELSE Get(kw[k])
        ELSE None]

HistoriaValid(kw) == Validates(kw, HistoriaFields, HistoriaRequired, HistoriaOptional)
Historia(kw) == Build(kw, HistoriaFields, HistoriaOptional)

PersonajeValid(kw) == Validates(kw, PersonajeFields, PersonajeRequired, PersonajeOptional)
Personaje(kw) == Build(kw, PersonajeFields, PersonajeOptional)

\* ContenedorHistoria(**kw): historia is required, personajes is a list that
\* cannot be None and is [] (default_factory=list) when it is not passed
ContenedorValid(kw) ==
    /\ "historia" \in DOMAIN kw
    /\ \A k \in (DOMAIN kw) \cap {"historia", "personajes"} : ~IsNone(kw[k])
ContenedorHistoria(kw) ==
    [historia   |-> Get(kw.historia),
     personajes |-> IF "personajes" \in DOMAIN kw THEN Get(kw.personajes) ELSE <<>>]

\* obj.model_dump(): the dict of all fields of a validated object
ModelDump(obj, optional) ==
    [k \in DOMAIN obj |-> IF k \in optional THEN obj[k] ELSE Some(obj[k])]

\* ------------------------------------------------ the state of a caller
VARIABLES
    uuidCount,   \* how many values uuid.uuid4() has returned so far
    now,         \* the instant the clock shows
    personajes,  \* the caller's list of character mappings (an option: None
                 \* when the caller passes no list); the assembly tool
                 \* writes into its dicts
    ret,         \* the last tool call: its tool, arguments and outcome
    uuidBefore,  \* uuidCount when the last tool call began
    runs,        \* the orchestrator runs (Runner.run), by run identifier
    caller       \* the program that started a run and shows its result

\* the variables of the orchestrator runs and their caller
runVars == <<runs, caller>>

vars == <<uuidCount, now, personajes, ret, uuidBefore, runs, caller>>

\* the outcome of a call: an exception, or the returned value
Raised(tool, args) ==
    [tool |-> tool, args |-> args, raised |-> TRUE, value |-> None]
Returned(tool, args, value) ==
    [tool |-> tool, args |-> args, raised |-> FALSE, value |-> Some(value)]

\* ---------------------------------------------------- create_historia
\* mutant of HistoriaKwTools: the description is not passed on
HistoriaKwToolsSinDescripcion(a, c, t1, t2) ==
    [story_id           |-> Some(Uuid4(c + 1)),
     titulo             |-> a.titulo,
     descripcion        |-> None,
     min_jugadores      |-> a.min_jugadores,
     max_jugadores      |-> a.max_jugadores,
     generos            |-> a.generos,
     autor_id           |-> Some(Uuid4(c + 2)),
     fecha_creacion     |-> Some(IsoFormat(t1)),
     fecha_modificacion |-> Some(IsoFormat(t2)),
     estado             |-> Some("borrador")]

\* the keyword arguments of Historia(...) in agent_tools: c uuids were drawn
\* before the call, the clock is read at t1 and then at t2
HistoriaKwTools(a, c, t1, t2) ==
    [story_id           |-> Some(Uuid4(c + 1)),
     titulo             |-> a.titulo,
     descripcion        |-> a.descripcion,
     min_jugadores      |-> a.min_jugadores,
     max_jugadores      |-> a.max_jugadores,
     generos            |-> a.generos,
     autor_id           |-> Some(Uuid4(c + 2)),
     fecha_creacion     |-> Some(IsoFormat(t1)),
     fecha_modificacion |-> Some(IsoFormat(t2)),
     estado             |-> Some("borrador")]

\* the keyword arguments of Historia(...) in the orchestrator's copy
HistoriaKwOrchestrator(a, c) ==
    [story_id      |-> Some(Uuid4(c + 1)),
     titulo        |-> a.titulo,
     descripcion   |-> a.descripcion,
     min_jugadores |-> a.min_jugadores,
     max_jugadores |-> a.max_jugadores,
     generos       |-> a.generos,
     autor_id      |-> Some(Uuid4(c + 2))]

\* Historia(**kw).model_dump(), or the ValidationError of the constructor
HistoriaTool(tool, a, kw) ==
    IF HistoriaValid(kw)
    THEN Returned(tool, a, ModelDump(Historia(kw), HistoriaOptional))
    ELSE Raised(tool, a)

\* ---------------------------------------------------- create_personaje
\* mutant of PersonajeKw: one uuid is drawn and used for both identifiers
PersonajeKwUnUuid(a, c, t1, t2) ==
    [personaje_id       |-> Some(Uuid4(c + 1)),
     nombre             |-> a.nombre,
     descripcion        |-> a.descripcion,
     story_id           |-> a.historia_id,
     rol                |-> a.rol,
     habilidades        |-> a.habilidades,
     nivel_poder        |-> a.nivel_poder,
     imagen_perfil      |-> a.imagen_perfil,
     edad               |-> a.edad,
     origen             |-> a.origen,
     creador_id         |-> Some(Uuid4(c + 1)),
     fecha_creacion     |-> Some(IsoFormat(t1)),
     fecha_modificacion |-> Some(IsoFormat(t2)),
     estado             |-> Some("activo")]

\* the keyword arguments of Personaje(...) in create_personaje
PersonajeKw(a, c, t1, t2) ==
    [personaje_id       |-> Some(Uuid4(c + 1)),
     nombre             |-> a.nombre,
     descripcion        |-> a.descripcion,
     story_id           |-> a.historia_id,
     rol                |-> a.rol,
     habilidades        |-> a.habilidades,
     nivel_poder        |-> a.nivel_poder,
     imagen_perfil      |-> a.imagen_perfil,
     edad               |-> a.edad,
     origen             |-> a.origen,
     creador_id         |-> Some(Uuid4(c + 2)),
     fecha_creacion     |-> Some(IsoFormat(t1)),
     fecha_modificacion |-> Some(IsoFormat(t2)),
     estado             |-> Some("activo")]

PersonajeTool(tool, a, kw) ==
    IF PersonajeValid(kw)
    THEN Returned(tool, a, ModelDump(Personaje(kw), PersonajeOptional))
    ELSE Raised(tool, a)

\* ------------------------------------------- create_contenedor_historia
\* the literal of the source file, character for character: the file holds
\* U+251C U+00A1 where "Historia sin título" has its í (characters outside
\* Latin-1 are written \\uXXXX in the strings of this module)
TituloPredeterminado == "Historia sin t\\u251c\\u00a1tulo"
MinJugadoresPredeterminado == 1
MaxJugadoresPredeterminado == 4

\* Python's "x or default" on an Optional[str]: None and "" are falsy
StrOr(o, default) == IF IsNone(o) \/ o = Some("") THEN Some(default) ELSE o
\* Python's "x or default" on an Optional[int]: None and 0 are falsy
IntOr(o, default) == IF IsNone(o) \/ o = Some(0) THEN Some(default) ELSE o

\* mutant of HistoriaKwContenedor: the second reading of the clock is the
\* creation time and the first the modification time
HistoriaKwContenedorInvertido(a, c, t1, t2) ==
    [story_id           |-> Some(Uuid4(c + 1)),
     titulo             |-> StrOr(a.titulo, TituloPredeterminado),
     descripcion        |-> a.descripcion,
     generos            |-> a.generos,
     dificultad         |-> a.dificultad,
     imagen_portada     |-> a.imagen_portada,
     min_jugadores      |-> IntOr(a.min_jugadores, MinJugadoresPredeterminado),
     max_jugadores      |-> IntOr(a.max_jugadores, MaxJugadoresPredeterminado),
     autor_id           |-> Some(Uuid4(c + 2)),
     fecha_creacion     |-> Some(IsoFormat(t2)),
     fecha_modificacion |-> Some(IsoFormat(t1)),
     estado             |-> a.estado]

\* the keyword arguments of Historia(...) in the assembly tool
HistoriaKwContenedor(a, c, t1, t2) ==
    [story_id           |-> Some(Uuid4(c + 1)),
     titulo             |-> StrOr(a.titulo, TituloPredeterminado),
     descripcion        |-> a.descripcion,
     generos            |-> a.generos,
     dificultad         |-> a.dificultad,
     imagen_portada     |-> a.imagen_portada,
     min_jugadores      |-> IntOr(a.min_jugadores, MinJugadoresPredeterminado),
     max_jugadores      |-> IntOr(a.max_jugadores, MaxJugadoresPredeterminado),
     autor_id           |-> Some(Uuid4(c + 2)),
     fecha_creacion     |-> Some(IsoFormat(t1)),
     fecha_modificacion |-> Some(IsoFormat(t2)),
     estado             |-> a.estado]

\* mutant of SetStoryId: the story_id is written only into a mapping that
\* has none
SetStoryIdSiFalta(personaje_data, historia) ==
    IF "story_id" \notin DOMAIN personaje_data
    THEN SetItem(personaje_data, "story_id", Some(historia.story_id))
    ELSE personaje_data

\* personaje_data['story_id'] = historia.story_id
SetStoryId(personaje_data, historia) ==
    SetItem(personaje_data, "story_id", Some(historia.story_id))

\* mutant of SetDefault: the default is written over a supplied value
SetDefaultSiempre(personaje_data, k, v) == SetItem(personaje_data, k, Some(v))

\* if k not in personaje_data: personaje_data[k] = v
SetDefault(personaje_data, k, v) ==
    IF k \notin DOMAIN personaje_data
    THEN SetItem(personaje_data, k, Some(v))
    ELSE personaje_data

\* mutant of NewPersonajeId: the story's identifier is used again
NewPersonajeIdHistoria(historia, c) == historia.story_id

\* the uuid the loop body draws for a mapping that has no personaje_id,
\* after c draws
NewPersonajeId(historia, c) == Uuid4(c + 1)

\* mutant of Completar: a personaje_id is drawn for every mapping, also for
\* one that has it
CompletarRegenera(personaje_data, historia, c) ==
    LET d1 == SetItem(personaje_data, "story_id", Some(historia.story_id))
        d2 == IF "creador_id" \notin DOMAIN d1
              THEN SetItem(d1, "creador_id", Some(historia.autor_id)) ELSE d1
        d3 == SetItem(d2, "personaje_id", Some(Uuid4(c + 1)))
        d4 == IF "fecha_creacion" \notin DOMAIN d3
              THEN SetItem(d3, "fecha_creacion", Some(historia.fecha_creacion)) ELSE d3
        d5 == IF "fecha_modificacion" \notin DOMAIN d4
              THEN SetItem(d4, "fecha_modificacion", Some(historia.fecha_modificacion))
              ELSE d4
        d6 == IF "estado" \notin DOMAIN d5
              THEN SetItem(d5, "estado", Some("activo")) ELSE d5
    IN  [data |-> d6, uuids |-> c + 1]

\* the body of the loop up to the construction of the Personaje: the dict
\* as the tool leaves it, and the number of uuids drawn so far
Completar(personaje_data, historia, c) ==
    LET d1 == SetStoryId(personaje_data, historia)
        d2 == SetDefault(d1, "creador_id", historia.autor_id)
        draws == "personaje_id" \notin DOMAIN d2
        d3 == IF draws
              THEN SetItem(d2, "personaje_id", Some(NewPersonajeId(historia, c)))
              ELSE d2
        d4 == SetDefault(d3, "fecha_creacion", historia.fecha_creacion)
        d5 == SetDefault(d4, "fecha_modificacion", historia.fecha_modificacion)
        d6 == SetDefault(d5, "estado", "activo")
    IN  [data |-> d6, uuids |-> IF draws THEN c + 1 ELSE c]

\* mutant of AppendPersonaje: the Character is put at the front
PrependPersonaje(personajes_list, x) == <<x>> \o personajes_list

\* personajes_list.append(x)
AppendPersonaje(personajes_list, x) == Append(personajes_list, x)

\* mutant of Bucle: a mapping whose Personaje(...) raises is skipped
RECURSIVE BucleOmite(_, _, _, _, _)
BucleOmite(lst, i, historia, c, out) ==
    IF i > Len(lst)
    THEN [lst |-> lst, out |-> out, raised |-> FALSE, uuids |-> c]
    ELSE LET r == Completar(lst[i], historia, c)
             lst2 == [lst EXCEPT ![i] = r.data]
         IN  BucleOmite(lst2, i + 1, historia, r.uuids,
                        IF PersonajeValid(r.data)
                        THEN Append(out, Personaje(r.data))
                        ELSE out)

\* the for loop from its i-th iteration on: lst is the caller's list as
\* written so far, out is personajes_list.  It stops at the first mapping
\* whose Personaje(...) raises.
RECURSIVE Bucle(_, _, _, _, _)
Bucle(lst, i, historia, c, out) ==
    IF i > Len(lst)
    THEN [lst |-> lst, out |-> out, raised |-> FALSE, uuids |-> c]
    ELSE LET r == Completar(lst[i], historia, c)
             lst2 == [lst EXCEPT ![i] = r.data]
         IN  IF PersonajeValid(r.data)
             THEN Bucle(lst2, i + 1, historia, r.uuids,
                        AppendPersonaje(out, Personaje(r.data)))
             ELSE [lst |-> lst2, out |-> out, raised |-> TRUE, uuids |-> r.uuids]

\* mutant of ContenedorKw: no list is passed on when the caller passed none
ContenedorKwSinLista(historia, personajes_list, ps) ==
    [historia   |-> Some(historia),
     personajes |-> IF IsNone(ps) THEN None ELSE Some(personajes_list)]

\* the keyword arguments of ContenedorHistoria(...): the list the loop built,
\* whatever the caller passed as personajes (ps)
ContenedorKw(historia, personajes_list, ps) ==
    [historia |-> Some(historia), personajes |-> Some(personajes_list)]

\* the tool from the construction of the Historia on.  ps is the caller's
\* list (an option).  The result holds the outcome of the call, the caller's
\* list after it and the number of uuids drawn.
Contenedor(a, ps, c, t1, t2) ==
    LET kw == HistoriaKwContenedor(a, c, t1, t2)
        args == [a EXCEPT !.personajes = ps]
    IN  IF ~HistoriaValid(kw)
        THEN [ret |-> Raised("create_contenedor_historia", args),
              personajes |-> ps, uuids |-> c + 2]
        ELSE LET historia == Historia(kw)
                 \* "if personajes:" is false for None and for []
                 b == IF IsNone(ps) \/ ps = Some(<<>>)
                      THEN [lst |-> <<>>, out |-> <<>>, raised |-> FALSE,
                            uuids |-> c + 2]
                      ELSE Bucle(Get(ps), 1, historia, c + 2, <<>>)
                 after == IF IsNone(ps) THEN None ELSE Some(b.lst)
                 ckw == ContenedorKw(historia, b.out, ps)
             IN  [ret |-> IF b.raised \/ ~ContenedorValid(ckw)
                          THEN Raised("create_contenedor_historia", args)
                          ELSE Returned("create_contenedor_historia", args,
                                        ContenedorHistoria(ckw)),
                  personajes |-> after, uuids |-> b.uuids]

\* ------------------------------------------------------------- inputs
\* an argument of a tool is an option: None stands for an argument that is
\* missing or null

\* create_historia: a plain call, an empty title with equal bounds, a
\* minimum above the maximum, no genres, and calls without a title or
\* without a minimum
HistoriaArgs ==
    {[titulo |-> t, descripcion |-> Some("Una torre sin puerta"),
      min_jugadores |-> mn, max_jugadores |-> mx, generos |-> g] :
        <<t, mn, mx, g>> \in
            {<<Some("La torre"), Some(1), Some(2), Some(<<"fantasia", "misterio">>)>>,
             <<Some(""), Some(2), Some(2), None>>,
             <<Some("La torre"), Some(2), Some(1), None>>,
             <<None, Some(1), Some(2), None>>,
             <<Some("La torre"), None, Some(2), None>>}}

\* the story identifiers a caller can pass to create_personaje: one that no
\* tool ever returned, or any uuid drawn so far
HistoriaIds(c) == {Some("no-existe")} \cup {Some(Uuid4(n)) : n \in 1..c}

\* the optional arguments of create_personaje: all left out, or all given
SinOpcionales ==
    [descripcion |-> None, rol |-> None, habilidades |-> None,
     nivel_poder |-> None, imagen_perfil |-> None, edad |-> None,
     origen |-> None]
ConOpcionales ==
    [descripcion |-> Some("Caballero errante"), rol |-> Some("protagonista"),
     habilidades |-> Some(<<"espada">>), nivel_poder |-> Some(7),
     imagen_perfil |-> Some("aldric.png"), edad |-> Some(30),
     origen |-> Some("Valle")]

PersonajeArgs(c) ==
    {[nombre |-> Some(n), historia_id |-> h] @@ o :
        n \in {"Aldric", ""}, h \in HistoriaIds(c),
        o \in {SinOpcionales, ConOpcionales}}
    \cup {[nombre |-> None, historia_id |-> Some("no-existe")] @@ SinOpcionales,
          [nombre |-> Some("Aldric"), historia_id |-> None] @@ SinOpcionales}

\* create_contenedor_historia: no story argument at all, every argument
\* given, the falsy values "" and 0, and a minimum alone
ContenedorArgs ==
    {[titulo |-> None, descripcion |-> None, generos |-> None,
      dificultad |-> None, imagen_portada |-> None, min_jugadores |-> None,
      max_jugadores |-> None, estado |-> None, personajes |-> None],
     [titulo |-> Some("La torre"), descripcion |-> Some("Una torre sin puerta"),
      generos |-> Some(<<"fantasia">>), dificultad |-> Some(3),
      imagen_portada |-> Some("torre.png"), min_jugadores |-> Some(2),
      max_jugadores |-> Some(3), estado |-> Some("publicada"),
      personajes |-> None],
     [titulo |-> Some(""), descripcion |-> None, generos |-> None,
      dificultad |-> None, imagen_portada |-> None, min_jugadores |-> Some(0),
      max_jugadores |-> Some(0), estado |-> None, personajes |-> None],
     [titulo |-> None, descripcion |-> None, generos |-> None,
      dificultad |-> None, imagen_portada |-> None, min_jugadores |-> Some(5),
      max_jugadores |-> None, estado |-> None, personajes |-> None]}

\* raw character mappings: the one of the spec's scenario, a complete one
\* that belongs to another story, one without nombre, and two that carry
\* some of the keys the tool fills in (estado given as None in the first)
MapSolo == [nombre |-> Some("Aldric")]
MapCompleto ==
    [nombre |-> Some("Brisa"), descripcion |-> Some("Maga del norte"),
     story_id |-> Some("otra-historia"), creador_id |-> Some("autor-dado"),
     personaje_id |-> Some("personaje-dado"),
     fecha_creacion |-> Some("2020-02-02T00:00:00+00:00"),
     fecha_modificacion |-> Some("2021-03-03T00:00:00+00:00"),
     estado |-> Some("inactivo")]
MapSinNombre == [descripcion |-> Some("Sin nombre"), story_id |-> Some("otra-historia")]
MapParcialA ==
    [nombre |-> Some("Ciro"), personaje_id |-> Some("otro-personaje"),
     estado |-> None]
MapParcialB ==
    [nombre |-> Some("Dara"), creador_id |-> Some("otro-autor"),
     fecha_creacion |-> Some("2022-04-04T00:00:00+00:00"),
     fecha_modificacion |-> Some("2023-05-05T00:00:00+00:00")]
Mappings == {MapSolo, MapCompleto, MapSinNombre, MapParcialA, MapParcialB}

RECURSIVE ListsOf(_, _)
ListsOf(S, n) ==
    IF n = 0 THEN {<<>>}
    ELSE LET shorter == ListsOf(S, n - 1)
         IN  shorter \cup {Append(l, x) : l \in {k \in shorter : Len(k) = n - 1}, x \in S}

\* what the caller can pass as personajes: nothing, or a list
PersonajesInputs == {None} \cup {Some(l) : l \in ListsOf(Mappings, MaxLen)}

\* two successive readings of the clock, which never runs backwards
Readings == {<<t1, t2>> \in (now..MaxClock) \X (now..MaxClock) : t1 <= t2}

NoCall == [tool |-> "none", args |-> None, raised |-> FALSE, value |-> None]

\* no orchestrator run and no caller of one
NoRuns == <<>>
NoCaller == [kind |-> "none"]

\* ------------------------------------------------------------ actions
\* agent_tools.agente_creador_historia.create_historia, called with
\* arguments of the set args
CreateHistoriaToolsWith(args) ==
    /\ uuidCount + 2 <= MaxUuid
    /\ \E a \in args, r \in Readings :
          /\ ret' = HistoriaTool("agent_tools.create_historia", a,
                                 HistoriaKwTools(a, uuidCount, r[1], r[2]))
          /\ now' = r[2]
    /\ uuidCount' = uuidCount + 2
    /\ uuidBefore' = uuidCount
    /\ UNCHANGED <<personajes, runVars>>

CreateHistoriaTools == CreateHistoriaToolsWith(HistoriaArgs)

\* agent_story_orchestrator.create_historia
CreateHistoriaOrchestrator ==
    /\ uuidCount + 2 <= MaxUuid
    /\ \E a \in HistoriaArgs :
          ret' = HistoriaTool("orchestrator.create_historia", a,
                              HistoriaKwOrchestrator(a, uuidCount))
    /\ uuidCount' = uuidCount + 2
    /\ uuidBefore' = uuidCount
    /\ UNCHANGED <<now, personajes, runVars>>

\* create_personaje, the same code in agent_tools.agente_creador_personajes
\* and in agent_story_orchestrator
CreatePersonaje ==
    /\ uuidCount + 2 <= MaxUuid
    /\ \E tool \in {"agent_tools.create_personaje", "orchestrator.create_personaje"},
          a \in PersonajeArgs(uuidCount), r \in Readings :
          /\ ret' = PersonajeTool(tool, a, PersonajeKw(a, uuidCount, r[1], r[2]))
          /\ now' = r[2]
    /\ uuidCount' = uuidCount + 2
    /\ uuidBefore' = uuidCount
    /\ UNCHANGED <<personajes, runVars>>

\* agent_story_orchestrator.create_contenedor_historia, called with
\* arguments of the set args and the caller's list
CreateContenedorHistoriaWith(args) ==
    \E a \in args, r \in Readings :
        LET res == Contenedor(a, personajes, uuidCount, r[1], r[2])
        IN  /\ res.uuids <= MaxUuid
            /\ ret' = res.ret
            /\ personajes' = res.personajes
            /\ uuidCount' = res.uuids
            /\ now' = r[2]
            /\ uuidBefore' = uuidCount
            /\ UNCHANGED runVars

CreateContenedorHistoria == CreateContenedorHistoriaWith(ContenedorArgs)

\* ----------------------------------------------------- specifications
\* a caller of the assembly tool: it holds a list of raw character mappings
\* (or none) and runs the tool on it, any number of times
Init ==
    /\ uuidCount = 0
    /\ now = 0
    /\ personajes \in PersonajesInputs
    /\ ret = NoCall
    /\ uuidBefore = 0
    /\ runs = NoRuns
    /\ caller = NoCaller

Next == CreateContenedorHistoria

Spec == Init /\ [][Next]_vars

\* a caller of the builder tools
InitBuilders ==
    /\ uuidCount = 0
    /\ now = 0
    /\ personajes = None
    /\ ret = NoCall
    /\ uuidBefore = 0
    /\ runs = NoRuns
    /\ caller = NoCaller

NextBuilders ==
    \/ CreateHistoriaTools
    \/ CreateHistoriaOrchestrator
    \/ CreatePersonaje

SpecBuilders == InitBuilders /\ [][NextBuilders]_vars

\* ========================================================== properties
\* the last call was a call of the assembly tool
ContenedorCalled == ret.tool = "create_contenedor_historia"
\* ... and it returned a container
ContenedorReturned == ContenedorCalled /\ ~ret.raised
\* the container it returned
Cont == Get(ret.value)
\* the list it was called with, as it was before the call ([] when the
\* caller passed none)
Entrada == IF IsNone(ret.args.personajes) THEN <<>> ELSE Get(ret.args.personajes)
\* the uuids drawn during the last call
Fresh == {Uuid4(n) : n \in (uuidBefore + 1)..uuidCount}
\* the uuids drawn before the last call
Old == {Uuid4(n) : n \in 1..uuidBefore}
\* the keys the assembly tool fills in when a mapping lacks them
DefaultKeys ==
    {"creador_id", "personaje_id", "fecha_creacion", "fecha_modificacion", "estado"}

\* C1: every Character of a returned container carries the story_id of the
\* container's Story, whatever story_id its mapping carried.
Thm_C1 ==
    ContenedorReturned =>
        \A i \in 1..Len(Cont.personajes) :
            Cont.personajes[i].story_id = Cont.historia.story_id

\* a container was returned for a list with a mapping that carried the
\* story_id of another story
Wit_C1 ==
    /\ ContenedorReturned
    /\ \E i \in 1..Len(Entrada) :
          /\ "story_id" \in DOMAIN Entrada[i]
          /\ Entrada[i].story_id # Some(Cont.historia.story_id)

\* the last call was a call of create_historia (either copy) whose
\* arguments are all present, with min_jugadores <= max_jugadores
HistoriaCalledWell ==
    /\ ret.tool \in {"agent_tools.create_historia", "orchestrator.create_historia"}
    /\ ~IsNone(ret.args.titulo)
    /\ ~IsNone(ret.args.descripcion)
    /\ ~IsNone(ret.args.min_jugadores)
    /\ ~IsNone(ret.args.max_jugadores)
    /\ Get(ret.args.min_jugadores) <= Get(ret.args.max_jugadores)

\* C2: both copies of create_historia return a complete Story for such
\* arguments: a non-empty generated story_id, and titulo, min_jugadores
\* and max_jugadores equal to the arguments.
Claim_C2 ==
    HistoriaCalledWell =>
        /\ ~ret.raised
        /\ DOMAIN Get(ret.value) = HistoriaFields
        /\ Get(ret.value).story_id \in {Some(u) : u \in Fresh}
        /\ Get(ret.value).story_id # Some("")
        /\ Get(ret.value).titulo = ret.args.titulo
        /\ Get(ret.value).min_jugadores = ret.args.min_jugadores
        /\ Get(ret.value).max_jugadores = ret.args.max_jugadores

\* C3: for each of the five keys, a Character of a returned container
\* carries the default when its mapping lacked the key (the story's autor_id,
\* a uuid drawn during the call, the story's two dates, "activo") and the
\* supplied value when its mapping had it.
Thm_C3 ==
    ContenedorReturned =>
        \A i \in 1..Len(Entrada) :
            LET m == Entrada[i]
                p == Cont.personajes[i]
                h == Cont.historia
            IN  /\ p.creador_id =
                      IF "creador_id" \in DOMAIN m THEN Get(m.creador_id) ELSE h.autor_id
                /\ IF "personaje_id" \in DOMAIN m
                   THEN p.personaje_id = Get(m.personaje_id)
                   ELSE p.personaje_id \in Fresh
                /\ p.fecha_creacion =
                      IF "fecha_creacion" \in DOMAIN m
                      THEN Get(m.fecha_creacion) ELSE h.fecha_creacion
                /\ p.fecha_modificacion =
                      IF "fecha_modificacion" \in DOMAIN m
                      THEN Get(m.fecha_modificacion) ELSE h.fecha_modificacion
                /\ p.estado =
                      IF "estado" \in DOMAIN m THEN m.estado ELSE Some("activo")

\* a container was returned for a list with a mapping that lacked the five
\* keys and a mapping that had them all
Wit_C3 ==
    /\ ContenedorReturned
    /\ \E i, j \in 1..Len(Entrada) :
          /\ DefaultKeys \cap DOMAIN Entrada[i] = {}
          /\ DefaultKeys \subseteq DOMAIN Entrada[j]

\* C4 as stated: once a run has returned a container for the caller's list,
\* another run leaves every field of the list's mappings unchanged.
Claim_C4 ==
    [][(ContenedorReturned /\ ~IsNone(personajes)) => personajes' = personajes]_vars

\* C4 amended: once a run has returned a container for the caller's list,
\* another run leaves every mapping with the same keys and with the same
\* value under every key other than story_id, which becomes the identifier
\* of the Story the second run creates.
Thm_C4 ==
    [][(ContenedorReturned /\ ~IsNone(personajes)) =>
           /\ ~IsNone(personajes')
           /\ Len(Get(personajes')) = Len(Get(personajes))
           /\ \A i \in 1..Len(Get(personajes)) :
                 LET m == Get(personajes)[i]
                     n == Get(personajes')[i]
                 IN  /\ DOMAIN n = DOMAIN m
                     /\ \A k \in (DOMAIN m) \ {"story_id"} : n[k] = m[k]
                     /\ ~ret'.raised
                     /\ n.story_id = Some(Get(ret'.value).historia.story_id)]_vars

\* a run returned a container for a list whose first mapping held the
\* story_id and the personaje_id that an earlier run had written into it
Wit_C4 ==
    /\ ContenedorReturned
    /\ Len(Entrada) >= 1
    /\ {"story_id", "personaje_id"} \subseteq DOMAIN Entrada[1]
    /\ Entrada[1].story_id \in {Some(u) : u \in Old}
    /\ Entrada[1].personaje_id \in {Some(u) : u \in Old}

\* C5: a call of the assembly tool with a list in which some mapping lacks
\* nombre raises and returns no container.
Thm_C5 ==
    (ContenedorCalled /\ \E i \in 1..Len(Entrada) : "nombre" \notin DOMAIN Entrada[i])
        => (ret.raised /\ IsNone(ret.value))

\* the tool was called with a list whose first mapping is the good one of
\* the spec's scenario, which the tool has completed, and whose second
\* mapping lacks nombre
Wit_C5 ==
    /\ ContenedorCalled
    /\ Len(Entrada) = 2
    /\ Entrada[1] = MapSolo
    /\ "nombre" \notin DOMAIN Entrada[2]
    /\ "personaje_id" \in DOMAIN Get(personajes)[1]

\* C6: the character list of a returned container is as long as the input
\* list and its i-th Character holds what the i-th mapping supplied.
Thm_C6 ==
    ContenedorReturned =>
        /\ Len(Cont.personajes) = Len(Entrada)
        /\ \A i \in 1..Len(Entrada) :
              \A k \in ((DOMAIN Entrada[i]) \cap PersonajeFields) \ {"story_id"} :
                  Entrada[i][k] =
                      IF k \in PersonajeOptional
                      THEN Cont.personajes[i][k]
                      ELSE Some(Cont.personajes[i][k])

\* a container was returned for a list of two mappings with different names
Wit_C6 ==
    /\ ContenedorReturned
    /\ Len(Entrada) = 2
    /\ Entrada[1].nombre # Entrada[2].nombre

\* C7: called with an empty list or with no list, the assembly tool returns
\* a container whose personajes is the empty list.
Thm_C7 ==
    (ContenedorCalled /\ ret.args.personajes \in {None, Some(<<>>)}) =>
        /\ ~ret.raised
        /\ "personajes" \in DOMAIN Cont
        /\ Len(Cont.personajes) = 0

\* the tool was called with no list
Wit_C7 == ContenedorReturned /\ IsNone(ret.args.personajes)

\* C8: with titulo, min_jugadores and max_jugadores all null, the Story of
\* the container has titulo "Historia sin título", min_jugadores 1 and
\* max_jugadores 4.
Claim_C8 ==
    (/\ ContenedorReturned
     /\ IsNone(ret.args.titulo)
     /\ IsNone(ret.args.min_jugadores)
     /\ IsNone(ret.args.max_jugadores)) =>
        /\ Cont.historia.titulo = "Historia sin título"
        /\ Cont.historia.min_jugadores = 1
        /\ Cont.historia.max_jugadores = 4

\* C9: in a returned container every personaje_id the tool generated differs
\* from the story_id, from the autor_id and from the personaje_id of every
\* other Character of the container.
Thm_C9 ==
    ContenedorReturned =>
        \A i \in 1..Len(Entrada) :
            "personaje_id" \notin DOMAIN Entrada[i] =>
                /\ Cont.personajes[i].personaje_id # Cont.historia.story_id
                /\ Cont.personajes[i].personaje_id # Cont.historia.autor_id
                /\ \A j \in (1..Len(Cont.personajes)) \ {i} :
                      Cont.personajes[j].personaje_id # Cont.personajes[i].personaje_id

\* a container was returned with two Characters whose personaje_id the tool
\* generated
Wit_C9 ==
    /\ ContenedorReturned
    /\ Len(Entrada) = 2
    /\ "personaje_id" \notin DOMAIN Entrada[1]
    /\ "personaje_id" \notin DOMAIN Entrada[2]

\* the last call was a call of create_personaje (either copy)
PersonajeCalled ==
    ret.tool \in {"agent_tools.create_personaje", "orchestrator.create_personaje"}

\* C10: for every name and every story identifier, create_personaje returns
\* a Character with that nombre and story_id, estado "activo", and a
\* personaje_id and a creador_id drawn during the call that differ from each
\* other and from the story identifier.
Thm_C10 ==
    (PersonajeCalled /\ ~IsNone(ret.args.nombre) /\ ~IsNone(ret.args.historia_id)) =>
        /\ ~ret.raised
        /\ Get(ret.value).nombre = ret.args.nombre
        /\ Get(ret.value).story_id = ret.args.historia_id
        /\ Get(ret.value).estado = Some("activo")
        /\ Get(ret.value).personaje_id \in {Some(u) : u \in Fresh}
        /\ Get(ret.value).creador_id \in {Some(u) : u \in Fresh}
        /\ Get(ret.value).personaje_id # Get(ret.value).creador_id
        /\ Get(ret.value).personaje_id # ret.args.historia_id
        /\ Get(ret.value).creador_id # ret.args.historia_id

\* create_personaje returned a Character for the identifier of a story that
\* no tool ever created, after another call had drawn uuids
Wit_C10 ==
    /\ PersonajeCalled
    /\ ~ret.raised
    /\ ret.args.historia_id = Some("no-existe")
    /\ uuidBefore > 0


\* =================================================== orchestrator runs
\* A run is Runner.run(orchestrator_agent, msg): the language model reads
\* the policy text, calls tools and finally emits an output.  Which tool it
\* calls, with which arguments, and what it emits is the model's choice;
\* the policy text asks, it does not constrain.  A decision of the model is
\* written as a step: the tool, its arguments, and where the values it
\* passes come from.

\* the most tool calls of one run
MaxCalls == 3

\* a run that has begun and called nothing yet (kind is the kind of final
\* output the model decides on)
NewRun ==
    [pc |-> "running", calls |-> <<>>, kind |-> "", output |-> None,
     new_items |-> <<>>]

\* the calls of a run that returned, of one tool
ReturnedCalls(calls, tool) ==
    SelectSeq(calls, LAMBDA k : k.tool = tool /\ ~k.raised)

\* the story identifier of step 2: the one the last story-builder call of
\* the run returned
StoryIdPaso2(calls) ==
    LET hs == ReturnedCalls(calls, "creador_historia")
    IN  IF hs = <<>> THEN None ELSE Get(hs[Len(hs)].value).story_id

\* the historia_id the model passes to the character-builder: the one of
\* step 2, or one it made up
HistoriaIdOf(step, calls) ==
    IF step.hid = "paso2" THEN StoryIdPaso2(calls) ELSE Some("no-existe")

\* the Characters the character-builder calls of the run returned, in call
\* order, as the model copies them into a list
Devueltos(calls) ==
    LET ps == ReturnedCalls(calls, "creador_de_personajes")
    IN  [i \in 1..Len(ps) |-> Get(ps[i].value)]

\* the list the model passes to the assembly tool
ListaOf(step, calls) ==
    CASE step.lista = "ninguna"    -> None
      [] step.lista = "devueltos"  -> Some(Devueltos(calls))
      [] step.lista = "sin-nombre" -> Some(<<MapSolo, MapSinNombre>>)

\* one tool call of a run: the call as the tool sees it, with the uuids it
\* drew (first + 1 .. last) and the step that led to it
Call(step, r, c) == [step |-> step] @@ r.ret @@ [first |-> c, last |-> r.uuids]

\* the tool of a step, run on what the step resolves to
StepResult(step, calls, c, t1, t2) ==
    CASE step.tool = "creador_historia" ->
            [ret |-> HistoriaTool("creador_historia", step.a,
                                  HistoriaKwOrchestrator(step.a, c)),
             uuids |-> c + 2]
      [] step.tool = "creador_de_personajes" ->
            LET a == [step.a EXCEPT !.historia_id = HistoriaIdOf(step, calls)]
            IN  [ret |-> PersonajeTool("creador_de_personajes", a,
                                       PersonajeKw(a, c, t1, t2)),
                 uuids |-> c + 2]
      [] step.tool = "create_contenedor_historia" ->
            LET res == Contenedor(step.a, ListaOf(step, calls), c, t1, t2)
            IN  [ret |-> res.ret, uuids |-> res.uuids]

\* the steps the model can take
HistoriaSteps ==
    {[tool |-> "creador_historia", a |-> a] :
        a \in {x \in HistoriaArgs : x.titulo = Some("La torre")
                                    /\ x.min_jugadores = Some(1)}}
PersonajeSteps(calls) ==
    {[tool |-> "creador_de_personajes", a |-> a, hid |-> h] :
        a \in {[nombre |-> Some("Aldric"), historia_id |-> None] @@ SinOpcionales,
               [nombre |-> Some("Brisa"), historia_id |-> None] @@ ConOpcionales,
               [nombre |-> None, historia_id |-> None] @@ SinOpcionales},
        h \in {"inventado"} \cup
              (IF IsNone(StoryIdPaso2(calls)) THEN {} ELSE {"paso2"})}
ContenedorSteps ==
    {[tool |-> "create_contenedor_historia", a |-> a, lista |-> l] :
        a \in {x \in ContenedorArgs : x.min_jugadores \in {None, Some(2)}},
        l \in {"ninguna", "devueltos", "sin-nombre"}}

\* ---------------------------------------------------- the final output
\* result.final_output is a value with its Python type
Output(type, value) == Some([type |-> type, value |-> value])

\* the container the last assembly call of the run returned
Ensamblado(calls) ==
    LET cs == ReturnedCalls(calls, "create_contenedor_historia")
    IN  IF cs = <<>> THEN None ELSE cs[Len(cs)].value

\* a container the model writes without any tool: output_type makes it a
\* valid ContenedorHistoria, nothing makes it the one of a tool
ContenedorInventado ==
    ContenedorHistoria(
        [historia |-> Some(Historia(
            [story_id |-> Some("historia-inventada"), titulo |-> Some("La torre"),
             descripcion |-> None, generos |-> None, dificultad |-> None,
             imagen_portada |-> None, min_jugadores |-> Some(1),
             max_jugadores |-> Some(4), autor_id |-> Some("autor-inventado"),
             fecha_creacion |-> Some(IsoFormat(0)),
             fecha_modificacion |-> Some(IsoFormat(0)), estado |-> None]))])

\* texts the model can emit in place of the structured object
TextoLibre == "Lo siento, no he podido crear la historia."
TextoJson == "{\"titulo\": \"La torre\"}"
TextoVacio == ""

\* json.loads on the texts above: the parsed document, or None for
\* json.JSONDecodeError
JsonLoads(text) ==
    IF text = TextoJson THEN Some([titulo |-> Some("La torre")]) ELSE None

\* the kinds of final output, and the value of each
OutputKinds(calls) ==
    {"inventado", "texto", "json", "vacio", "dict"}
    \cup (IF IsNone(Ensamblado(calls)) THEN {}
          ELSE {"herramienta", "retitulado"})

OutputOf(kind, calls) ==
    CASE kind = "herramienta" ->
            Output("ContenedorHistoria", Get(Ensamblado(calls)))
      [] kind = "retitulado"  ->
            Output("ContenedorHistoria",
                   [Get(Ensamblado(calls)) EXCEPT !.historia.titulo = "Otra torre"])
      [] kind = "inventado"   -> Output("ContenedorHistoria", ContenedorInventado)
      [] kind = "texto"       -> Output("str", TextoLibre)
      [] kind = "json"        -> Output("str", TextoJson)
      [] kind = "vacio"       -> Output("str", TextoVacio)
      [] kind = "dict"        -> Output("dict", [titulo |-> Some("La torre")])

\* bool(result.final_output)
Truthy(o) ==
    /\ ~IsNone(o)
    /\ ~(Get(o).type = "str" /\ Get(o).value = "")
    /\ ~(Get(o).type = "dict" /\ DOMAIN Get(o).value = {})

\* ------------------------------------------------------- run actions
\* the two readings of the clock during a tool call of a run: the clock
\* stands still, or it moves on by one between them
RunReadings == {rd \in Readings : rd[1] = now /\ rd[2] <= now + 1}

\* the model calls a tool: the call is appended to the run, and an
\* exception raised inside the tool ends the run
ToolCall(r, step) ==
    /\ r \in DOMAIN runs
    /\ runs[r].pc = "running"
    /\ Len(runs[r].calls) < MaxCalls
    /\ \E rd \in RunReadings :
          LET res == StepResult(step, runs[r].calls, uuidCount, rd[1], rd[2])
          IN  /\ res.uuids <= MaxUuid
              /\ runs' = [runs EXCEPT
                            ![r].calls = Append(@, Call(step, res, uuidCount)),
                            ![r].pc = IF res.ret.raised THEN "raised" ELSE @]
              /\ ret' = res.ret
              /\ uuidCount' = res.uuids
              /\ now' = rd[2]
              /\ uuidBefore' = uuidCount
    /\ UNCHANGED <<personajes, caller>>

CallCreadorHistoria(r) ==
    \E step \in HistoriaSteps : ToolCall(r, step)

CallCreadorDePersonajes(r) ==
    /\ r \in DOMAIN runs
    /\ \E step \in PersonajeSteps(runs[r].calls) : ToolCall(r, step)

CallCreateContenedorHistoria(r) ==
    \E step \in ContenedorSteps : ToolCall(r, step)

\* the model emits its final output and the run is done; new_items holds
\* the text content of the items the run produced
FinalOutputOf(r, kinds) ==
    /\ r \in DOMAIN runs
    /\ runs[r].pc = "running"
    /\ \E kind \in OutputKinds(runs[r].calls) \cap kinds, items \in {<<>>, <<TextoLibre, TextoJson>>} :
          /\ Truthy(OutputOf(kind, runs[r].calls)) => items = <<>>
          /\ runs' = [runs EXCEPT ![r].pc = "done",
                                  ![r].kind = kind,
                                  ![r].output = OutputOf(kind, runs[r].calls),
                                  ![r].new_items = items]
    /\ UNCHANGED <<uuidCount, now, personajes, ret, uuidBefore, caller>>

FinalOutput(r) ==
    FinalOutputOf(r, {"herramienta", "retitulado", "inventado", "texto", "json",
                      "vacio", "dict"})

\* ------------------------------------------------------------ callers
\* what a caller shows: the function that shows it, its text, and the
\* document it formats (an option, None when it shows text alone)
Item(fn, text) == [fn |-> fn, text |-> text, doc |-> None]
Doc(fn, doc) == [fn |-> fn, text |-> "json", doc |-> Some(doc)]

\* the items of a sequence of sequences, in order
RECURSIVE Flatten(_)
Flatten(ss) == IF ss = <<>> THEN <<>> ELSE Head(ss) \o Flatten(Tail(ss))

MsgResultado == "=== RESULTADO ==="
MsgFin == "=== FIN DEL RESULTADO ==="
MsgNoJson == "La respuesta no es un JSON v\\u251c\\u00edlido:"
MsgSinRespuesta == "No se ha generado una respuesta estructurada."
MsgErrorCli == "Error durante la ejecuci\\u251c\\u2502n: "
MsgErrorUi == "Error durante la ejecución: "
MsgProblema == "Hubo un problema al generar la historia. Por favor, intenta de nuevo."
MsgExito == "¡Historia generada con éxito!"
MsgSinEntrada == "Por favor, ingresa una descripción para tu historia."

\* main(): what is printed for a ContenedorHistoria
CliContenedor(c) ==
    <<Item("print", "Historia:"), Doc("print", ModelDump(c.historia, HistoriaOptional))>>
    \o (IF c.personajes # <<>>
        THEN <<Item("print", "Personajes:")>>
             \o Flatten([i \in 1..Len(c.personajes) |->
                    <<Item("print", "Personaje " \o ToString(i) \o ":"),
                      Doc("print", ModelDump(c.personajes[i], PersonajeOptional))>>])
        ELSE <<>>)

\* mutant of CliStr: text that is not JSON is announced and not printed
CliStrSinTexto(text) ==
    IF IsNone(JsonLoads(text))
    THEN <<Item("print", MsgNoJson)>>
    ELSE <<Doc("print", Get(JsonLoads(text)))>>

\* main(): what is printed for a str
CliStr(text) ==
    IF IsNone(JsonLoads(text))
    THEN <<Item("print", MsgNoJson), Item("print", text)>>
    ELSE <<Doc("print", Get(JsonLoads(text)))>>

\* main(): the first item of new_items whose content is JSON is printed
RECURSIVE CliNewItems(_)
CliNewItems(items) ==
    IF items = <<>> THEN <<>>
    ELSE IF Head(items) # "" /\ ~IsNone(JsonLoads(Head(items)))
         THEN <<Doc("print", Get(JsonLoads(Head(items))))>>
         ELSE CliNewItems(Tail(items))

\* main(): what is printed between the two banners for a run that returned
CliResultado(run) ==
    IF Truthy(run.output)
    THEN LET o == Get(run.output)
         IN  CASE o.type = "ContenedorHistoria" -> CliContenedor(o.value)
               [] o.type = "str"  -> CliStr(o.value)
               [] o.type = "dict" -> <<Doc("print", o.value)>>
    ELSE IF run.new_items # <<>>
         THEN CliNewItems(run.new_items)
         ELSE <<Item("print", MsgSinRespuesta)>>

\* main() from the return of Runner.run, or from its exception
CliOut(run) ==
    IF run.pc = "raised"
    THEN <<Item("print", MsgErrorCli), Item("traceback.print_exc", "")>>
    ELSE <<Item("print", MsgResultado)>> \o CliResultado(run)
         \o <<Item("print", MsgFin)>>

\* the agent view: what is shown for an object with an attribute historia
UiContenedor(c) ==
    <<Item("st.subheader", "Historia:"),
      Doc("st.json", ModelDump(c.historia, HistoriaOptional)),
      Item("st.write", "Número de personajes: " \o ToString(Len(c.personajes)))>>
    \o (IF c.personajes # <<>>
        THEN <<Item("st.subheader", "Personajes:")>>
             \o [i \in 1..Len(c.personajes) |->
                    Doc("st.json", ModelDump(c.personajes[i], PersonajeOptional))]
        ELSE <<Item("st.info", "No se encontraron personajes en el resultado.")>>)

\* the agent view: what is shown for a str
UiStr(text) ==
    IF IsNone(JsonLoads(text))
    THEN <<Item("st.text", text)>>
    ELSE <<Doc("st.json", Get(JsonLoads(text)))>>

\* the agent view: what is shown for a dict
UiDict(d) ==
    <<Doc("st.json", d)>>
    \o (IF "personajes" \in DOMAIN d
        THEN <<Item("st.subheader", "Personajes:")>>
             \o [i \in 1..Len(Get(d.personajes)) |->
                    Doc("st.json", Get(d.personajes)[i])]
        ELSE <<>>)

\* the agent view: the display of st.session_state.agent_result
UiResultado(agent_result) ==
    IF IsNone(agent_result) THEN <<>>
    ELSE <<Item("st.subheader", "Resultado:")>>
         \o (IF Truthy(Get(agent_result).output)
             THEN LET o == Get(Get(agent_result).output)
                  IN  <<Item("st.write", "Tipo de resultado: " \o o.type)>>
                      \o CASE o.type = "ContenedorHistoria" -> UiContenedor(o.value)
                           [] o.type = "str"  -> UiStr(o.value)
                           [] o.type = "dict" -> UiDict(o.value)
             ELSE <<>>)

\* mutant of RunAgentAsync: the run is returned whether it raised or not
RunAgentAsyncSiempre(run) == Some(run)

\* run_agent_async: the result of the run, or None when it raised
RunAgentAsync(run) == IF run.pc = "raised" THEN None ELSE Some(run)

\* the agent view after run_agent_async: the messages of the handler
UiMensajes(run) ==
    (IF run.pc = "raised" THEN <<Item("st.error", MsgErrorUi)>> ELSE <<>>)
    \o (IF IsNone(RunAgentAsync(run))
        THEN <<Item("st.error", MsgProblema)>>
        ELSE <<Item("st.success", MsgExito)>>)

\* a caller that has not begun
CliInicial ==
    [kind |-> "cli", pc |-> "start", out |-> <<>>, agent_result |-> None,
     failed |-> FALSE]
UiInicial(user_input, agent_result) ==
    [kind |-> "ui", pc |-> "start", out |-> <<>>, agent_result |-> agent_result,
     failed |-> FALSE, user_input |-> user_input]

\* the result an earlier run of the session left in agent_result
RunAnterior ==
    [pc |-> "done", calls |-> <<>>, kind |-> "texto",
     output |-> Output("str", TextoLibre), new_items |-> <<>>]

\* main() up to Runner.run: the message is read and the run begins
CliStart ==
    /\ caller.kind = "cli"
    /\ caller.pc = "start"
    /\ runs' = (1 :> NewRun)
    /\ caller' = [caller EXCEPT !.pc = "awaiting",
                                !.out = <<Item("print", "Procesando tu solicitud...")>>]
    /\ UNCHANGED <<uuidCount, now, personajes, ret, uuidBefore>>

\* main() from Runner.run on
CliMain ==
    /\ caller.kind = "cli"
    /\ caller.pc = "awaiting"
    /\ runs[1].pc # "running"
    /\ caller' = [caller EXCEPT !.pc = "finished",
                                !.out = @ \o CliOut(runs[1]),
                                !.failed = (runs[1].pc = "raised")]
    /\ UNCHANGED <<uuidCount, now, personajes, ret, uuidBefore, runs>>

\* "Generar Historia" up to Runner.run: without text a warning, with text
\* the run begins
UiStart ==
    /\ caller.kind = "ui"
    /\ caller.pc = "start"
    /\ IF caller.user_input = ""
       THEN /\ caller' = [caller EXCEPT
                             !.pc = "finished",
                             !.out = <<Item("st.warning", MsgSinEntrada)>>
                                     \o UiResultado(caller.agent_result)]
            /\ UNCHANGED runs
       ELSE /\ caller' = [caller EXCEPT
                             !.pc = "awaiting",
                             !.out = <<Item("st.info", "Procesando tu solicitud..."),
                                       Item("st.info", "Prompt mejorado: ")>>]
            /\ runs' = (1 :> NewRun)
    /\ UNCHANGED <<uuidCount, now, personajes, ret, uuidBefore>>

\* "Generar Historia" from run_agent_async on: the result is stored, the
\* message is shown, and the stored result is displayed
UiGenerar ==
    /\ caller.kind = "ui"
    /\ caller.pc = "awaiting"
    /\ runs[1].pc # "running"
    /\ caller' = [caller EXCEPT
                     !.pc = "finished",
                     !.agent_result = RunAgentAsync(runs[1]),
                     !.out = @ \o UiMensajes(runs[1])
                               \o UiResultado(RunAgentAsync(runs[1])),
                     !.failed = (runs[1].pc = "raised")]
    /\ UNCHANGED <<uuidCount, now, personajes, ret, uuidBefore, runs>>

\* -------------------------------------------- specification of one run
\* a caller, the CLI or the agent view, starts one run and shows what
\* comes of it
InitRun ==
    /\ uuidCount = 0
    /\ now = 0
    /\ personajes = None
    /\ ret = NoCall
    /\ uuidBefore = 0
    /\ runs = NoRuns
    /\ caller \in {CliInicial, UiInicial("Una torre", None), UiInicial("", None),
                   UiInicial("Una torre", Some(RunAnterior)),
                   UiInicial("", Some(RunAnterior))}

NextRun ==
    \/ CliStart
    \/ UiStart
    \/ CallCreadorHistoria(1)
    \/ CallCreadorDePersonajes(1)
    \/ CallCreateContenedorHistoria(1)
    \/ FinalOutput(1)
    \/ CliMain
    \/ UiGenerar

SpecRun == InitRun /\ [][NextRun]_vars

\* the run of SpecRun
Run == runs[1]
RunStarted == 1 \in DOMAIN runs
RunDone == RunStarted /\ Run.pc = "done"
RunRaised == RunStarted /\ Run.pc = "raised"


\* ===================================================== run properties
\* the positions of the calls of a tool in a run
CallsOf(run, tool) == {i \in 1..Len(run.calls) : run.calls[i].tool = tool}
\* ... and of those that returned
ReturnsOf(run, tool) == {i \in CallsOf(run, tool) : ~run.calls[i].raised}

\* C11: in every completed run the story-builder is called and returns
\* before any character-builder call, every character-builder call returns
\* before the container-assembly call, and the run is done only after the
\* container-assembly call has returned.
Claim_C11 ==
    RunDone =>
        /\ ReturnsOf(Run, "creador_historia") # {}
        /\ \A i \in CallsOf(Run, "creador_de_personajes") :
              \E h \in ReturnsOf(Run, "creador_historia") : h < i
        /\ \A i \in CallsOf(Run, "creador_de_personajes"),
              j \in CallsOf(Run, "create_contenedor_historia") : i < j
        /\ ReturnsOf(Run, "create_contenedor_historia") # {}


\* the final output of the run is a ContenedorHistoria
OutputIsContenedor ==
    RunDone /\ ~IsNone(Run.output) /\ Get(Run.output).type = "ContenedorHistoria"
\* ... and this is it
OutputCont == Get(Run.output).value

\* C12: the value a completed run returns is exactly the StoryContainer
\* that the run's container-assembly call returned: the same Story, the
\* same Characters in the same order, nothing added or altered.
Claim_C12 ==
    RunDone =>
        /\ OutputIsContenedor
        /\ ~IsNone(Ensamblado(Run.calls))
        /\ OutputCont = Get(Ensamblado(Run.calls))


\* a Character has a descripcion that is neither None nor ""
Descrito(p) == ~IsNone(p.descripcion) /\ Get(p.descripcion) # ""

\* C13: every StoryContainer returned by a completed run holds at least
\* two Characters, each with a non-empty descripcion.
Claim_C13 ==
    OutputIsContenedor =>
        /\ Len(OutputCont.personajes) >= 2
        /\ \A i \in 1..Len(OutputCont.personajes) : Descrito(OutputCont.personajes[i])


\* the caller has shown an item / a formatted document
Shown(fn, text) ==
    \E i \in 1..Len(caller.out) : caller.out[i].fn = fn /\ caller.out[i].text = text
ShownDoc == \E i \in 1..Len(caller.out) : ~IsNone(caller.out[i].doc)
CallerFinished == caller.kind # "none" /\ caller.pc = "finished"

\* what C14 says of a state in which a tool invocation of the run raised
AbortedState ==
    RunRaised =>
        /\ Run.calls[Len(Run.calls)].raised
        /\ \A i \in 1..(Len(Run.calls) - 1) : ~Run.calls[i].raised
        /\ IsNone(Run.output)
        /\ CallerFinished =>
              /\ caller.failed
              /\ ~ShownDoc
              /\ caller.kind = "cli" =>
                    /\ Shown("print", MsgErrorCli)
                    /\ Shown("traceback.print_exc", "")
                    /\ ~Shown("print", MsgFin)
              /\ caller.kind = "ui" =>
                    /\ Shown("st.error", MsgErrorUi)
                    /\ IsNone(caller.agent_result)
                    /\ ~Shown("st.success", MsgExito)

\* C14: if a tool invocation raises during a run, the run is aborted: no
\* tool is invoked again and no container is produced or stored (the run
\* never changes again and has no output), and the caller reports the
\* error: the CLI prints a message and a traceback, the UI shows an error
\* and keeps no result.
Thm_C14 ==
    [][/\ RunRaised => runs' = runs
       /\ AbortedState']_vars

\* a run of the agent view raised at its second tool call and the view
\* has shown its messages
Wit_C14 ==
    /\ RunRaised
    /\ Len(Run.calls) = 2
    /\ CallerFinished
    /\ caller.kind = "ui"
    /\ IsNone(caller.agent_result)
    /\ Shown("st.error", MsgProblema)


\* the final output of the run is a str that json.loads rejects
OutputIsBadText ==
    /\ RunDone
    /\ ~IsNone(Run.output)
    /\ Get(Run.output).type = "str"
    /\ IsNone(JsonLoads(Get(Run.output).value))

\* the caller has shown the raw text of the final output and finished
\* without reporting an error
RawShown ==
    /\ ~caller.failed
    /\ caller.kind = "cli" =>
          /\ Shown("print", Get(Run.output).value)
          /\ Shown("print", MsgFin)
          /\ ~Shown("print", MsgErrorCli)
    /\ caller.kind = "ui" =>
          /\ Shown("st.text", Get(Run.output).value)
          /\ caller.agent_result = Some(Run)
          /\ ~Shown("st.error", MsgErrorUi)
          /\ ~Shown("st.error", MsgProblema)

\* C15 as stated: when the final output is a string that cannot be parsed
\* as JSON, both callers display the raw text and finish normally.
Claim_C15 == (OutputIsBadText /\ CallerFinished) => RawShown

\* C15, amended: when the final output is a non-empty string that cannot be
\* parsed as JSON, both callers display the raw text and finish normally;
\* for the empty string they finish normally too, without reporting an
\* error, but the text branch is not taken.
Thm_C15 ==
    (OutputIsBadText /\ CallerFinished) =>
        /\ Get(Run.output).value # "" => RawShown
        /\ ~caller.failed
        /\ ~Shown("print", MsgErrorCli)
        /\ ~Shown("st.error", MsgErrorUi)

\* the CLI has shown the text the model emitted after a tool call
Wit_C15 ==
    /\ OutputIsBadText
    /\ Get(Run.output).value = TextoLibre
    /\ Len(Run.calls) > 0
    /\ CallerFinished
    /\ caller.kind = "cli"
    /\ Shown("print", MsgNoJson)


\* ------------------------------------------ specification of two runs
\* two runs have begun (two messages submitted at the same time); their
\* tool calls interleave in any order, each call being one step of the
\* single thread that serves them
RunIds == {1, 2}

InitConcurrent ==
    /\ uuidCount = 0
    /\ now = 0
    /\ personajes = None
    /\ ret = NoCall
    /\ uuidBefore = 0
    /\ runs = [r \in RunIds |-> NewRun]
    /\ caller = NoCaller

\* the steps of the two runs: the story-builder, the character-builder
\* with and without a name, the assembly tool without story attributes on
\* no list or on the Characters returned so far
ConcurrentSteps(calls) ==
    HistoriaSteps
    \cup {s \in PersonajeSteps(calls) : s.a.nombre # Some("Brisa")}
    \cup {s \in ContenedorSteps : IsNone(s.a.titulo) /\ IsNone(s.a.min_jugadores)
                                   /\ s.lista # "sin-nombre"}

NextConcurrent ==
    \E r \in RunIds :
        \/ \E step \in ConcurrentSteps(runs[r].calls) : ToolCall(r, step)
        \/ FinalOutputOf(r, {"herramienta", "inventado", "texto"})

SpecConcurrent == InitConcurrent /\ [][NextConcurrent]_vars

\* the same decisions of the model, taken in a run that is alone: its
\* calls are replayed from the first uuid, with the clock standing still
RECURSIVE Replay(_, _, _, _)
Replay(steps, i, calls, c) ==
    IF i > Len(steps) \/ (calls # <<>> /\ calls[Len(calls)].raised)
    THEN calls
    ELSE LET res == StepResult(steps[i], calls, c, 0, 0)
         IN  Replay(steps, i + 1, Append(calls, Call(steps[i], res, c)), res.uuids)

Alone(run) ==
    LET calls == Replay([i \in 1..Len(run.calls) |-> run.calls[i].step], 1, <<>>, 0)
        raised == calls # <<>> /\ calls[Len(calls)].raised
    IN  [pc |-> IF raised THEN "raised" ELSE run.pc,
         calls |-> calls,
         output |-> IF run.pc = "done" /\ ~raised
                    THEN OutputOf(run.kind, calls) ELSE None]

\* a value is an identifier uuid4 produced / an instant the clock showed
GeneratedId(v) == \E n \in 1..MaxUuid : v = Uuid4(n)
GeneratedTime(v) == \E t \in 0..MaxClock : v = IsoFormat(t)

\* the identifiers of a container, in the order of its fields
IdSeq(c) ==
    <<c.historia.story_id, c.historia.autor_id>>
    \o Flatten([i \in 1..Len(c.personajes) |->
                   <<c.personajes[i].personaje_id, c.personajes[i].story_id,
                     c.personajes[i].creador_id>>])

\* a container up to the choice of fresh identifiers and timestamps: every
\* generated identifier is replaced by the place where it first occurs,
\* every generated timestamp by a fixed mark
Label(v, ids) ==
    IF GeneratedId(v)
    THEN "id-" \o ToString(CHOOSE i \in 1..Len(ids) :
                              ids[i] = v /\ \A j \in 1..(i - 1) : ids[j] # v)
    ELSE v
NormTime(v) == IF GeneratedTime(v) THEN "t" ELSE v
NormCont(c) ==
    [historia |-> [c.historia EXCEPT !.story_id = Label(@, IdSeq(c)),
                                     !.autor_id = Label(@, IdSeq(c)),
                                     !.fecha_creacion = NormTime(@),
                                     !.fecha_modificacion = NormTime(@)],
     personajes |-> [i \in 1..Len(c.personajes) |->
                        [c.personajes[i] EXCEPT
                            !.personaje_id = Label(@, IdSeq(c)),
                            !.story_id = Label(@, IdSeq(c)),
                            !.creador_id = Label(@, IdSeq(c)),
                            !.fecha_creacion = NormTime(@),
                            !.fecha_modificacion = NormTime(@)]]]
NormOutput(o) ==
    IF ~IsNone(o) /\ Get(o).type = "ContenedorHistoria"
    THEN Output("ContenedorHistoria", NormCont(Get(o).value))
    ELSE o

\* the uuids drawn during the tool calls of a run
GenIds(run) ==
    UNION {{Uuid4(n) : n \in (run.calls[i].first + 1)..run.calls[i].last} :
              i \in 1..Len(run.calls)}
\* the identifiers in the result of a run
ResultIds(run) ==
    IF ~IsNone(run.output) /\ Get(run.output).type = "ContenedorHistoria"
    THEN {IdSeq(Get(run.output).value)[i] :
            i \in 1..Len(IdSeq(Get(run.output).value))}
    ELSE {}

\* the run ended as it ends alone
SameAsAlone(run) ==
    /\ Alone(run).pc = run.pc
    /\ Len(Alone(run).calls) = Len(run.calls)
    /\ NormOutput(Alone(run).output) = NormOutput(run.output)

\* C16: two runs whose tool calls are interleaved in any order are
\* independent: each returns (or raises) what it would when run alone, up to
\* the choice of fresh identifiers and timestamps, and no identifier
\* generated in one run appears in the other run's result.
Thm_C16 ==
    \A r \in RunIds : \A o \in RunIds \ {r} :
        runs[r].pc # "running" =>
            /\ SameAsAlone(runs[r])
            /\ GenIds(runs[o]) \cap ResultIds(runs[r]) = {}

\* both runs returned the container of their assembly call, and the calls
\* of one lie between the calls of the other
Wit_C16 ==
    /\ \A r \in RunIds :
          /\ runs[r].pc = "done"
          /\ runs[r].kind = "herramienta"
    /\ Len(runs[1].calls) = 2
    /\ runs[1].calls[1].last <= runs[2].calls[1].first
    /\ runs[2].calls[1].last <= runs[1].calls[2].first
    /\ Len(runs[1].output[1].value.personajes) = 1


\* ================================================================ JSON
\* a JSON document: null, a string, a number, an array or an object
JNull == [t |-> "null"]
JStr(s) == [t |-> "str", v |-> s]
JNum(n) == [t |-> "int", v |-> n]
JArr(a) == [t |-> "arr", v |-> a]
JObj(o) == [t |-> "obj", v |-> o]

\* the declared type of each field: str, int or List[str]
HistoriaTypes ==
    [k \in HistoriaFields |->
        IF k \in {"min_jugadores", "max_jugadores", "dificultad"} THEN "int"
        ELSE IF k = "generos" THEN "arr" ELSE "str"]
PersonajeTypes ==
    [k \in PersonajeFields |->
        IF k \in {"nivel_poder", "edad"} THEN "int"
        ELSE IF k = "habilidades" THEN "arr" ELSE "str"]

\* json.dumps of one value of a model_dump(): None becomes null, a str a
\* string, an int a number, a list of str an array of strings
ToJsonValue(o, type) ==
    IF IsNone(o) THEN JNull
    ELSE CASE type = "str" -> JStr(Get(o))
           [] type = "int" -> JNum(Get(o))
           [] type = "arr" -> JArr([i \in 1..Len(Get(o)) |-> JStr(Get(o)[i])])

\* mutant of ToJsonObj: members that are None are left out of the object
ToJsonObjSinNulos(dump, types) ==
    JObj([k \in {x \in DOMAIN dump : ~IsNone(dump[x])} |->
             ToJsonValue(dump[k], types[k])])

\* json.dumps(obj.model_dump()): every field is a member of the object
ToJsonObj(dump, types) ==
    JObj([k \in DOMAIN dump |-> ToJsonValue(dump[k], types[k])])

\* a ContenedorHistoria serialized: its historia and its personajes, each
\* dumped as main() dumps them
ContenedorToJson(c) ==
    JObj([historia   |-> ToJsonObj(ModelDump(c.historia, HistoriaOptional),
                                   HistoriaTypes),
          personajes |-> JArr([i \in 1..Len(c.personajes) |->
                                  ToJsonObj(ModelDump(c.personajes[i], PersonajeOptional),
                                            PersonajeTypes)])])

\* json.loads of one document: null becomes None, a string a str, a number
\* an int, an array of strings a list of str
FromJsonValue(j) ==
    CASE j.t = "null" -> None
      [] j.t = "arr"  -> Some([i \in 1..Len(j.v) |-> j.v[i].v])
      [] OTHER        -> Some(j.v)

\* pydantic accepts the parsed value for a field of the declared type
\* (None is left to Validates)
TypeOk(j, type) ==
    \/ j.t = "null"
    \/ /\ j.t = type
       /\ type = "arr" => \A i \in 1..Len(j.v) : j.v[i].t = "str"

\* Model(**json.loads(text)) for Historia and Personaje: the object, or
\* None for ValidationError
ObjFromJson(j, fields, required, optional, types) ==
    IF j.t # "obj" THEN None
    ELSE LET kw == [k \in DOMAIN j.v |-> FromJsonValue(j.v[k])]
         IN  IF /\ \A k \in (DOMAIN j.v) \cap fields : TypeOk(j.v[k], types[k])
                /\ Validates(kw, fields, required, optional)
             THEN Some(Build(kw, fields, optional))
             ELSE None

\* ContenedorHistoria(**json.loads(text)): historia is validated as a
\* Historia and every element of personajes as a Personaje
ContenedorFromJson(j) ==
    IF j.t # "obj" \/ "historia" \notin DOMAIN j.v THEN None
    ELSE LET h == ObjFromJson(j.v.historia, HistoriaFields, HistoriaRequired,
                              HistoriaOptional, HistoriaTypes)
             pj == IF "personajes" \in DOMAIN j.v THEN j.v.personajes ELSE JArr(<<>>)
             ps == IF pj.t # "arr" THEN <<>>
                   ELSE [i \in 1..Len(pj.v) |->
                            ObjFromJson(pj.v[i], PersonajeFields, PersonajeRequired,
                                        PersonajeOptional, PersonajeTypes)]
         IN  IF IsNone(h) \/ pj.t # "arr" \/ \E i \in 1..Len(ps) : IsNone(ps[i])
             THEN None
             ELSE Some(ContenedorHistoria(
                      [historia |-> h,
                       personajes |-> Some([i \in 1..Len(ps) |-> Get(ps[i])])]))

\* the container the assembly tool returned is serialized and the JSON is
\* parsed back; the caller keeps the container, the JSON and the outcome
JsonRoundTrip ==
    /\ ret.tool = "create_contenedor_historia"
    /\ ~ret.raised
    /\ caller' = [kind |-> "json",
                  cont |-> Get(ret.value),
                  doc |-> ContenedorToJson(Get(ret.value)),
                  parsed |-> ContenedorFromJson(ContenedorToJson(Get(ret.value)))]
    /\ UNCHANGED <<uuidCount, now, personajes, ret, uuidBefore, runs>>

\* a caller that runs the assembly tool some times, then serializes the
\* container of the last call and ends
NextJson ==
    \/ caller = NoCaller /\ CreateContenedorHistoria
    \/ caller = NoCaller /\ JsonRoundTrip

SpecJson == Init /\ [][NextJson]_vars

\* C17: serializing a StoryContainer to JSON and parsing the JSON back
\* yields a value equal to the original field for field, including null
\* optional fields and an empty character list.
Thm_C17 ==
    caller.kind = "json" => caller.parsed = Some(caller.cont)

\* a container with null optional fields and no character went through
\* JSON
Wit_C17 ==
    /\ caller.kind = "json"
    /\ caller.cont.personajes = <<>>
    /\ IsNone(caller.cont.historia.estado)
    /\ IsNone(caller.cont.historia.generos)
    /\ caller.doc.v.historia.v.estado = JNull
    /\ caller.doc.v.personajes = JArr(<<>>)


\* ------------------------------------- specification of the four tools
\* a caller of all the tools, in any order, holding a short list of raw
\* character mappings for the assembly tool
ToolsInputs ==
    {None, Some(<<MapSolo>>), Some(<<MapSolo, MapParcialA>>), Some(<<MapParcialB>>)}

InitTools ==
    /\ uuidCount = 0
    /\ now = 0
    /\ personajes \in ToolsInputs
    /\ ret = NoCall
    /\ uuidBefore = 0
    /\ runs = NoRuns
    /\ caller = NoCaller

NextTools ==
    \/ CreateHistoriaTools
    \/ CreateHistoriaOrchestrator
    \/ CreatePersonaje
    \/ CreateContenedorHistoria

SpecTools == InitTools /\ [][NextTools]_vars

\* datetime.fromisoformat: the instant a timestamp written by isoformat()
\* stands for
Instant(s) == CHOOSE t \in 0..MaxClock : IsoFormat(t) = s

\* fecha_creacion <= fecha_modificacion, as instants
FechasEnOrden(creacion, modificacion) == Instant(creacion) <= Instant(modificacion)

\* the mapping supplied neither timestamp
SinFechas(m) == DOMAIN m \cap {"fecha_creacion", "fecha_modificacion"} = {}

\* C18: with a clock that never goes backwards, every Story and Character
\* returned by the story-builder, by the character-builder, or by the
\* assembly tool for a mapping that supplied no timestamps has
\* fecha_creacion <= fecha_modificacion.
Thm_C18 ==
    /\ (/\ ret.tool \in {"agent_tools.create_historia", "orchestrator.create_historia",
                         "agent_tools.create_personaje", "orchestrator.create_personaje"}
        /\ ~ret.raised)
          => FechasEnOrden(Get(Get(ret.value).fecha_creacion),
                           Get(Get(ret.value).fecha_modificacion))
    /\ ContenedorReturned =>
          /\ FechasEnOrden(Cont.historia.fecha_creacion, Cont.historia.fecha_modificacion)
          /\ \A i \in 1..Len(Cont.personajes) :
                SinFechas(Entrada[i]) =>
                    FechasEnOrden(Cont.personajes[i].fecha_creacion,
                                  Cont.personajes[i].fecha_modificacion)

\* the clock moved between its two readings during an assembly call that
\* completed a mapping without timestamps, after a story-builder call
Wit_C18 ==
    /\ ContenedorReturned
    /\ Len(Cont.personajes) = 2
    /\ SinFechas(Entrada[2])
    /\ Instant(Cont.personajes[2].fecha_creacion)
          < Instant(Cont.personajes[2].fecha_modificacion)
    /\ uuidBefore > 0


\* ------------------------- specification of the two Story constructions
\* the arguments the story-builder and the assembly tool share
SharedKeys == {"titulo", "descripcion", "generos", "min_jugadores", "max_jugadores"}

\* story arguments for both tools: those of the story-builder, and one
\* with the bounds 0
StoryArgs ==
    HistoriaArgs
    \cup {[titulo |-> Some("La torre"), descripcion |-> None,
           min_jugadores |-> Some(0), max_jugadores |-> Some(0),
           generos |-> None]}

\* the same arguments passed to the assembly tool, with the given estado
\* (None when the caller leaves it out) and no character
ContenedorArgsOf(a, estado) ==
    a @@ [dificultad |-> None, imagen_portada |-> None, estado |-> estado,
          personajes |-> None]
\* the shared arguments of a call of the assembly tool
BuilderArgsOf(p) == [k \in SharedKeys |-> p[k]]

PairedArgs == {ContenedorArgsOf(a, e) : a \in StoryArgs, e \in {None, Some("borrador")}}

\* a caller of the story-builder and of the assembly tool
NextStories ==
    \/ CreateHistoriaToolsWith(StoryArgs)
    \/ CreateContenedorHistoriaWith(PairedArgs)

SpecStories == InitBuilders /\ [][NextStories]_vars

\* the fields of a Story other than the generated identifiers and timestamps
ComparedFields ==
    HistoriaFields \ {"story_id", "autor_id", "fecha_creacion", "fecha_modificacion"}

\* the Story the story-builder returns for arguments a, as a dict (None
\* when it raises)
BuilderStory(a, c) ==
    HistoriaTool("agent_tools.create_historia", a, HistoriaKwTools(a, c, 0, 0)).value
\* the Story the assembly tool constructs for arguments p, as a dict
AssemblyStory(p, c) ==
    IF HistoriaValid(HistoriaKwContenedor(p, c, 0, 0))
    THEN Some(ModelDump(Historia(HistoriaKwContenedor(p, c, 0, 0)), HistoriaOptional))
    ELSE None

\* the Story the last call constructed, next to the Story the other tool
\* constructs for the same shared arguments: b from the story-builder, s
\* from the assembly tool called with estado
StoryPairs ==
    IF ret.tool = "agent_tools.create_historia" /\ ~ret.raised
    THEN {[b |-> Get(ret.value),
           s |-> Get(AssemblyStory(ContenedorArgsOf(ret.args, e), uuidBefore)),
           estado |-> e] : e \in {None, Some("borrador")}}
    ELSE IF ContenedorReturned /\ ~IsNone(BuilderStory(BuilderArgsOf(ret.args), uuidBefore))
    THEN {[b |-> Get(BuilderStory(BuilderArgsOf(ret.args), uuidBefore)),
           s |-> ModelDump(Cont.historia, HistoriaOptional),
           estado |-> ret.args.estado]}
    ELSE {}

UltimoEnsamblado ==
    CHOOSE k \in ReturnsOf(Run, "create_contenedor_historia") :
        \A j \in ReturnsOf(Run, "create_contenedor_historia") : j <= k
\* the Characters the character-builder calls returned before that call
PersonajesDevueltos == Devueltos(SubSeq(Run.calls, 1, UltimoEnsamblado - 1))
\* the uuids drawn before and during that call
IdsAntes == {Uuid4(n) : n \in 1..Run.calls[UltimoEnsamblado].first}
IdsEnsamblado ==
    {Uuid4(n) : n \in (Run.calls[UltimoEnsamblado].first + 1)..Run.calls[UltimoEnsamblado].last}

\* the run is done and returns the container its assembly call made of the
\* Characters its character-builder calls returned
AssembledFromReturned ==
    /\ OutputIsContenedor
    /\ Run.kind = "herramienta"
    /\ Run.calls[UltimoEnsamblado].step.lista = "devueltos"
    /\ PersonajesDevueltos # <<>>

Claim_C23 ==
    ContenedorReturned =>
        /\ ~IsNone(ret.args.titulo) => Cont.historia.titulo = Get(ret.args.titulo)
        /\ ~IsNone(ret.args.min_jugadores) =>
              Cont.historia.min_jugadores = Get(ret.args.min_jugadores)
        /\ ~IsNone(ret.args.max_jugadores) =>
              Cont.historia.max_jugadores = Get(ret.args.max_jugadores)

\* C24: when every supplied player bound is at least 1 and, when both are
\* supplied, min_jugadores <= max_jugadores, the resulting Story has
\* min_jugadores >= 1 and max_jugadores >= min_jugadores, also when only
\* one of the two bounds is supplied.
Claim_C24 ==
    (/\ ContenedorReturned
     /\ ~IsNone(ret.args.min_jugadores) => Get(ret.args.min_jugadores) >= 1
     /\ ~IsNone(ret.args.max_jugadores) => Get(ret.args.max_jugadores) >= 1
     /\ (~IsNone(ret.args.min_jugadores) /\ ~IsNone(ret.args.max_jugadores)) =>
           Get(ret.args.min_jugadores) <= Get(ret.args.max_jugadores))
    => /\ Cont.historia.min_jugadores >= 1
       /\ Cont.historia.max_jugadores >= Cont.historia.min_jugadores


\* ================================================== the Streamlit session
\* src/streamlit_app.py keeps the authentication state in st.session_state.
\* The session is held in caller.st; caller.before is the session as it was
\* when the last operation started, caller.op the operation, caller.returned
\* its return value and caller.env the answers of Supabase and of the
\* backend the operation met.

MaxTokens == 2
MaxHour == 2

SessionLifetime == 1

Email == "ana@lectura.es"

\* st.session_state after the initialisation block of the script.
SessionInicial ==
    [authenticated |-> FALSE, user_info |-> None, access_token |-> None,
     refresh_token |-> None, email_confirmed |-> TRUE, session_expiry |-> None]

\* What supabase.auth.sign_in_with_password does for an account: it returns
\* a user with a session, a user without a session (AuthResponse.session is
\* Optional), no user, or raises.
SignInOutcomes(account) ==
    CASE account = "confirmed" -> {"session", "no_session", "error"}
      [] account = "unconfirmed" -> {"not_confirmed", "error"}
      [] OTHER -> {"invalid", "no_user", "error"}

Accounts == {"confirmed", "unconfirmed", "wrong"}

AccessToken(n) == "at-" \o ToString(n)

RefreshTokenOf(n) == "rt-" \o ToString(n)

UserDirect(email) ==
    [id |-> "u-1", email |-> email, nombre |-> None, apellidos |-> None]

\* data.get(key) on a decoded JSON object.
DataGet(data, key) == IF key \in DOMAIN data THEN data[key] ELSE None

\* POST /auth/login of the backend: the status and the JSON body, for the
\* answer sb of Supabase; n numbers the session Supabase issues.
UserResponse(id, email, tokens, confirmed, message) ==
    [id |-> Some(id), email |-> Some(email), nombre |-> None, apellidos |-> None,
     access_token |-> tokens[1], refresh_token |-> tokens[2],
     email_confirmed |-> Some(confirmed), message |-> message]

AuthLogin(sb, email, n) ==
    CASE sb = "session" ->
            [status |-> 200,
             data |-> UserResponse("u-1", email,
                         <<Some(AccessToken(n)), Some(RefreshTokenOf(n))>>, TRUE, None)]
      [] sb = "not_confirmed" ->
            [status |-> 200,
             data |-> UserResponse("", email, <<None, None>>, FALSE,
                         Some("Por favor, confirma tu correo electrónico antes de iniciar sesión."))]
      [] OTHER ->
            [status |-> 401, data |-> [detail |-> Some("Error al iniciar sesión")]]

\* POST /auth/refresh-token of the backend.
AuthRefreshToken(accepted, n) ==
    IF accepted
    THEN [status |-> 200,
          data |-> [access_token |-> Some(AccessToken(n)),
                    refresh_token |-> Some(RefreshTokenOf(n)),
                    token_type |-> Some("bearer")]]
    ELSE [status |-> 401, data |-> [detail |-> Some("Error al refrescar el token")]]

NotFound == [status |-> 404, data |-> [detail |-> Some("Not Found")]]

\* The POST routes of the auth router, by path under the API base URL.
AuthPost(path, answer) ==
    CASE path = "auth/login" -> answer.login
      [] path = "auth/refresh-token" -> answer.refresh
      [] OTHER -> NotFound

\* requests.post(...): the response, or "down" when the request raises.
RequestsPost(up, path, answer) ==
    IF up THEN AuthPost(path, answer) ELSE [status |-> 0, data |-> <<>>]

LogoutSinExpiry(s) ==
    [s EXCEPT !.authenticated = FALSE, !.user_info = None, !.access_token = None,
              !.refresh_token = None]

\* logout(), up to its st.rerun().
Logout(s) ==
    [s EXCEPT !.authenticated = FALSE, !.user_info = None, !.access_token = None,
              !.refresh_token = None, !.session_expiry = None]

\* refresh_token(): the session afterwards and the value returned; t is the
\* reading of time.time().
RefreshToken(s, up, answer, t) ==
    IF IsNone(s.refresh_token) \/ ~up
    THEN [st |-> s, returned |-> FALSE]
    ELSE LET response == RequestsPost(up, "auth/refresh", answer)
         IN  IF response.status = 200
             THEN [st |-> [s EXCEPT !.access_token = DataGet(response.data, "access_token"),
                                    !.refresh_token = DataGet(response.data, "refresh_token"),
                                    !.session_expiry = Some(t + SessionLifetime)],
                   returned |-> TRUE]
             ELSE [st |-> s, returned |-> FALSE]

\* The first half of login(): the direct Supabase sign-in. returned is None
\* when the function goes on to the API fallback.
LoginDirect(s, client, direct, email, n, t) ==
    IF ~client
    THEN [st |-> s, returned |-> None]
    ELSE CASE direct = "session" ->
                 [st |-> [s EXCEPT !.authenticated = TRUE,
                                   !.access_token = Some(AccessToken(n)),
                                   !.refresh_token = Some(RefreshTokenOf(n)),
                                   !.user_info = Some(UserDirect(email)),
                                   !.session_expiry = Some(t + SessionLifetime)],
                  returned |-> Some(TRUE)]
           [] direct = "no_session" ->
                 [st |-> [s EXCEPT !.authenticated = TRUE], returned |-> None]
           [] OTHER -> [st |-> s, returned |-> None]

\* The second half of login(): the fallback to POST /auth/login.
LoginApi(s, up, answer, email, t) ==
    LET response == RequestsPost(up, "auth/login", answer)
        data == response.data
    IN  IF ~up
        THEN [st |-> s, returned |-> FALSE]
        ELSE IF response.status = 200
        THEN [st |-> [s EXCEPT !.authenticated = TRUE,
                               !.access_token = DataGet(data, "access_token"),
                               !.refresh_token = DataGet(data, "refresh_token"),
                               !.user_info = IF ~IsNone(DataGet(data, "user"))
                                             THEN DataGet(data, "user")
                                             ELSE Some([email |-> email]),
                               !.session_expiry = Some(t + SessionLifetime)],
              returned |-> TRUE]
        ELSE IF response.status = 401
        THEN [st |-> IF "email_confirmed" \in DOMAIN data /\ ~Get(data.email_confirmed)
                     THEN [s EXCEPT !.email_confirmed = FALSE]
                     ELSE s,
              returned |-> FALSE]
        ELSE [st |-> s, returned |-> FALSE]

Login(s, client, direct, up, answer, email, n, t) ==
    LET first == LoginDirect(s, client, direct, email, n, t)
    IN  IF ~IsNone(first.returned)
        THEN [st |-> first.st, returned |-> Get(first.returned)]
        ELSE LoginApi(first.st, up, answer, email, t)

\* The expiry check every run of the script makes before it draws the page:
\* the session afterwards, and whether the run goes on.
Expired(s, t) ==
    s.authenticated /\ ~IsNone(s.session_expiry) /\ t > Get(s.session_expiry)

SessionExpiryCheck(s, up, answer, t) ==
    IF ~Expired(s, t)
    THEN [st |-> s, goes_on |-> TRUE]
    ELSE LET r == RefreshToken(s, up, answer, t)
         IN  IF r.returned THEN [st |-> r.st, goes_on |-> TRUE]
                           ELSE [st |-> Logout(r.st), goes_on |-> FALSE]

\* make_request(...) as far as the session goes: a 401 while authenticated
\* makes it refresh the token, and log out when that fails.
MakeRequest(s, status, up, answer, t) ==
    IF status = 401 /\ s.authenticated
    THEN LET r == RefreshToken(s, up, answer, t)
         IN  IF r.returned THEN r.st ELSE Logout(r.st)
    ELSE s

\* What the backend answers to the session's requests: answer.login for
\* POST auth/login, answer.refresh for POST auth/refresh-token.
Answers(api, accepted, n, email) ==
    [login |-> AuthLogin(api, email, n), refresh |-> AuthRefreshToken(accepted, n)]

NoEnv ==
    [account |-> "", client |-> FALSE, direct |-> "", api |-> "", up |-> FALSE,
     accepted |-> FALSE, status |-> 0, expired |-> FALSE]

SessionInit ==
    [kind |-> "session", st |-> SessionInicial, before |-> SessionInicial,
     op |-> "init", returned |-> None, env |-> NoEnv, issued |-> 0, clock |-> 0]

\* The session after an operation: a session Supabase issued is counted.
SessionAfter(op, s, returned, env, n, t) ==
    [kind |-> "session", st |-> s, before |-> caller.st, op |-> op,
     returned |-> returned, env |-> env,
     issued |-> IF s.access_token = Some(AccessToken(n)) THEN n ELSE caller.issued,
     clock |-> t]

SessionFrame == UNCHANGED <<uuidCount, now, personajes, ret, uuidBefore, runs>>

\* The login button: the page offers it only while not authenticated.
StLogin ==
    /\ caller.kind = "session"
    /\ ~caller.st.authenticated
    /\ caller.issued < MaxTokens
    /\ \E account \in Accounts, client \in BOOLEAN, up \in BOOLEAN,
          t \in caller.clock .. MaxHour :
         \E direct \in SignInOutcomes(account), api \in SignInOutcomes(account) :
            LET n == caller.issued + 1
                r == Login(caller.st, client, direct, up,
                           Answers(api, FALSE, n, Email), Email, n, t)
            IN  caller' = SessionAfter("login", r.st, Some(r.returned),
                              [NoEnv EXCEPT !.account = account, !.client = client,
                                            !.direct = direct, !.api = api, !.up = up],
                              n, t)
    /\ SessionFrame

\* ?logout=true in the query parameters of an authenticated session.
StLogout ==
    /\ caller.kind = "session"
    /\ caller.st.authenticated
    /\ \E t \in caller.clock .. MaxHour :
         caller' = SessionAfter("logout", Logout(caller.st), None, NoEnv,
                                caller.issued + 1, t)
    /\ SessionFrame

\* A run of the script of an authenticated session that makes no request.
StSessionCheck ==
    /\ caller.kind = "session"
    /\ caller.st.authenticated
    /\ caller.issued < MaxTokens
    /\ \E up \in BOOLEAN, accepted \in BOOLEAN, t \in caller.clock .. MaxHour :
         LET n == caller.issued + 1
             r == SessionExpiryCheck(caller.st, up,
                                     Answers("invalid", accepted, n, Email), t)
         IN  caller' = SessionAfter("check", r.st, None,
                           [NoEnv EXCEPT !.up = up, !.accepted = accepted,
                                         !.expired = Expired(caller.st, t)],
                           n, t)
    /\ SessionFrame

\* A run of the script of an authenticated session that makes one request,
\* answered with status.
StMakeRequest ==
    /\ caller.kind = "session"
    /\ caller.st.authenticated
    /\ caller.issued < MaxTokens
    /\ \E up \in BOOLEAN, accepted \in BOOLEAN, status \in {200, 401},
          t \in caller.clock .. MaxHour :
         LET n == caller.issued + 1
             answer == Answers("invalid", accepted, n, Email)
             r == SessionExpiryCheck(caller.st, up, answer, t)
         IN  caller' = SessionAfter("make_request",
                           IF r.goes_on THEN MakeRequest(r.st, status, up, answer, t)
                                        ELSE r.st,
                           None,
                           [NoEnv EXCEPT !.up = up, !.accepted = accepted,
                                         !.status = status,
                                         !.expired = Expired(caller.st, t)],
                           n, t)
    /\ SessionFrame

InitSession ==
    /\ uuidCount = 0
    /\ now = 0
    /\ personajes = None
    /\ ret = NoCall
    /\ uuidBefore = 0
    /\ runs = NoRuns
    /\ caller = SessionInit

NextSession ==
    \/ StLogin
    \/ StLogout
    \/ StSessionCheck
    \/ StMakeRequest

SpecSession == InitSession /\ [][NextSession]_vars


\* C21: in every reachable state of the Streamlit session authenticated is
\* True only if an access token is stored, and a login attempt for an account
\* whose email is not confirmed never ends with authenticated = True.
Claim_C21 ==
    caller.kind = "session" =>
        /\ caller.st.authenticated => ~IsNone(caller.st.access_token)
        /\ (caller.op = "login" /\ caller.env.account = "unconfirmed") =>
              ~caller.st.authenticated

\* C25: when login() returns False the session is not authenticated
\* afterwards and access_token, refresh_token and user_info are the ones it
\* had before the call.
Claim_C25 ==
    (caller.kind = "session" /\ caller.op = "login" /\ caller.returned = Some(FALSE)) =>
        /\ ~caller.st.authenticated
        /\ caller.st.access_token = caller.before.access_token
        /\ caller.st.refresh_token = caller.before.refresh_token
        /\ caller.st.user_info = caller.before.user_info

\* The last run of the script called refresh_token() with a refresh token in
\* the session, the backend was reachable and Supabase accepts the token.
RefreshAccepted ==
    /\ caller.kind = "session"
    /\ caller.op \in {"check", "make_request"}
    /\ caller.env.expired \/ caller.env.status = 401
    /\ ~IsNone(caller.before.refresh_token)
    /\ caller.env.up
    /\ caller.env.accepted

\* C26: when the session has expired or a request got 401, and the session
\* holds a refresh token the backend accepts, the new tokens are stored and
\* the user stays authenticated.
Claim_C26 ==
    RefreshAccepted =>
        /\ caller.st.authenticated
        /\ caller.st.access_token = Some(AccessToken(caller.issued))
        /\ caller.st.refresh_token = Some(RefreshTokenOf(caller.issued))
        /\ caller.st.access_token # caller.before.access_token

\* C30: after logout() authenticated is False, user_info, access_token,
\* refresh_token and session_expiry are null, and every other key of the
\* session is as it was.
Thm_C30 ==
    (caller.kind = "session" /\ caller.op = "logout") =>
        /\ ~caller.st.authenticated
        /\ IsNone(caller.st.user_info)
        /\ IsNone(caller.st.access_token)
        /\ IsNone(caller.st.refresh_token)
        /\ IsNone(caller.st.session_expiry)
        /\ caller.st.email_confirmed = caller.before.email_confirmed

\* logout() has run on a session that held a user, both tokens and an
\* expiry time.
Wit_C30 ==
    /\ caller.kind = "session"
    /\ caller.op = "logout"
    /\ ~IsNone(caller.before.user_info)
    /\ ~IsNone(caller.before.access_token)
    /\ ~IsNone(caller.before.refresh_token)
    /\ ~IsNone(caller.before.session_expiry)
    /\ ~caller.st.authenticated


\* ============================================================ the REST API
\* src/app/api/v1: one router per entity over a Supabase table, and
\* src/app/auth/auth.py: the bearer-token dependencies. With the bodies drawn
\* here a PUT or DELETE handler reads and writes no table but its router's,
\* so a behaviour follows the requests to one router: caller.router is the
\* router, caller.table the content of its table, caller.last the last
\* request and its answer.

Routers ==
    {"historias", "partidas", "jugadores", "personajes", "nodos", "opciones",
     "variables", "tablas_decisiones", "partidas_jugadores",
     "historial_decisiones", "autores"}

\* The routers whose routes depend on get_current_user.
Protected == {"autores"}

\* The routers whose PUT rejects a body without data before it reads the row.
EmptyFirst == Routers \ Protected

\* The handlers that re-raise an HTTPException as it is; the other handlers
\* with a try answer 404 when "404" is in str(e) and 400 otherwise.
ReRaises ==
    {<<"jugadores", "PUT">>, <<"personajes", "PUT">>, <<"personajes", "DELETE">>,
     <<"opciones", "PUT">>, <<"variables", "PUT">>, <<"partidas_jugadores", "PUT">>}

HttpException(status) == [kind |-> "http", status |-> status]

ApiError == [kind |-> "api", status |-> 0]

Has404Nunca(e) == FALSE

\* "404" in str(e): str of an HTTPException is "<status>: <detail>", and the
\* text of the backend's error carries no "404".
Has404(e) == e.kind = "http" /\ e.status = 404

\* The status the handler of router and method answers when e is raised
\* inside its body.
StatusOf(router, method, e) ==
    IF router \in Protected
    THEN IF e.kind = "http" THEN e.status ELSE 500
    ELSE IF e.kind = "http" /\ <<router, method>> \in ReRaises
    THEN e.status
    ELSE IF Has404(e) THEN 404 ELSE 400

\* HTTPBearer(): the credentials of the Authorization header, or 403.
Headers == {"none", "basic", "bearer"}

Security(header) ==
    IF header = "bearer" THEN [raised |-> 0, value |-> Some("token")]
                         ELSE [raised |-> 403, value |-> None]

\* get_current_user, with its dependency; sb is what supabase.auth.get_user
\* does with the token: "user", "no_user" or "raises".
GetUserOutcomes == {"user", "no_user", "raises"}

GetCurrentUser(header, sb) ==
    LET credentials == Security(header)
    IN  IF credentials.raised # 0
        THEN credentials
        ELSE IF sb = "user" THEN [raised |-> 0, value |-> Some("user")]
                            ELSE [raised |-> 401, value |-> None]

\* get_optional_user, with its dependency.
GetOptionalUser(header, sb) ==
    LET credentials == Security(header)
    IN  IF credentials.raised # 0
        THEN credentials
        ELSE IF IsNone(credentials.value)
        THEN [raised |-> 0, value |-> None]
        ELSE LET user == GetCurrentUser(header, sb)
             IN  IF user.raised # 0 THEN [raised |-> 0, value |-> None] ELSE user

Ids == {1, 2}

Bodies == {"vacio", "estado"}

UpdateDataConNulos(body) == {body}

\* update_data: the non-null fields of the body.
UpdateData(body) == IF body = "vacio" THEN {} ELSE {body}

\* Which call to the backend raises: none, the select or the write.
Fallos == {"ninguno", "select", "write"}

SinDatos == "No se proporcionaron datos para actualizar"

Answer(status, detail, ops, table) ==
    [status |-> status, detail |-> detail, ops |-> ops, table |-> table]

\* The answer of the handler of router and method when e is raised in it.
Raise(router, method, e, ops, table) ==
    Answer(StatusOf(router, method, e),
           IF Has404(e) THEN "no encontrado" ELSE "error", ops, table)

\* PUT /<router>/{id}: the status, the calls issued to the router's table
\* and the table afterwards.
Update(router, table, id, body, user, falla) ==
    IF router \in Protected /\ user.raised # 0
    THEN Answer(user.raised, "credentials", <<>>, table)
    ELSE IF router \in EmptyFirst /\ UpdateData(body) = {}
    THEN Answer(400, SinDatos, <<>>, table)
    ELSE IF falla = "select"
    THEN Raise(router, "PUT", ApiError, <<"select">>, table)
    ELSE IF id \notin DOMAIN table
    THEN Raise(router, "PUT", HttpException(404), <<"select">>, table)
    ELSE IF falla = "write"
    THEN Raise(router, "PUT", ApiError, <<"select", "update">>, table)
    ELSE Answer(200, "", <<"select", "update">>,
                IF UpdateData(body) = {} THEN table
                ELSE [table EXCEPT ![id] = body])

\* DELETE /<router>/{id}.
Delete(router, table, id, user, falla) ==
    IF router \in Protected /\ user.raised # 0
    THEN Answer(user.raised, "credentials", <<>>, table)
    ELSE IF falla = "select"
    THEN Raise(router, "DELETE", ApiError, <<"select">>, table)
    ELSE IF id \notin DOMAIN table
    THEN Raise(router, "DELETE", HttpException(404), <<"select">>, table)
    ELSE IF falla = "write"
    THEN Raise(router, "DELETE", ApiError, <<"select", "delete">>, table)
    ELSE Answer(204, "", <<"select", "delete">>,
                [i \in DOMAIN table \ {id} |-> table[i]])

TablaInicial == [i \in {1} |-> "creado"]

ApiInit(router) ==
    [kind |-> "api", router |-> router, table |-> TablaInicial,
     last |-> [method |-> "none"]]

ApiAfter(method, id, body, header, sb, falla, a) ==
    [kind |-> "api", router |-> caller.router, table |-> a.table,
     last |-> [method |-> method, id |-> id, body |-> body,
               header |-> header, sb |-> sb, falla |-> falla,
               known |-> id \in DOMAIN caller.table, before |-> caller.table,
               status |-> a.status, detail |-> a.detail, ops |-> a.ops]]

Put ==
    /\ caller.kind = "api"
    /\ \E id \in Ids, body \in Bodies, falla \in Fallos,
          header \in Headers, sb \in GetUserOutcomes :
         /\ caller.router \notin Protected => (header = "none" /\ sb = "user")
         /\ caller' = ApiAfter("PUT", id, body, header, sb, falla,
                         Update(caller.router, caller.table, id, body,
                                GetCurrentUser(header, sb), falla))
    /\ SessionFrame

DeleteRow ==
    /\ caller.kind = "api"
    /\ \E id \in Ids, falla \in Fallos, header \in Headers, sb \in GetUserOutcomes :
         /\ caller.router \notin Protected => (header = "none" /\ sb = "user")
         /\ caller' = ApiAfter("DELETE", id, "vacio", header, sb, falla,
                         Delete(caller.router, caller.table, id,
                                GetCurrentUser(header, sb), falla))
    /\ SessionFrame

\* A request to a route that depends on get_optional_user.
OptionalUser ==
    /\ caller.kind = "api"
    /\ \E header \in Headers, sb \in GetUserOutcomes :
         caller' = [caller EXCEPT !.last =
                       [method |-> "optional", header |-> header, sb |-> sb,
                        user |-> GetOptionalUser(header, sb)]]
    /\ SessionFrame

InitApi ==
    /\ uuidCount = 0
    /\ now = 0
    /\ personajes = None
    /\ ret = NoCall
    /\ uuidBefore = 0
    /\ runs = NoRuns
    /\ caller \in {ApiInit(router) : router \in Routers}

NextApi ==
    \/ Put
    \/ DeleteRow
    \/ OptionalUser

SpecApi == InitApi /\ [][NextApi]_vars


OptionalRequest == caller.kind = "api" /\ caller.last.method = "optional"

\* C27: get_optional_user never raises for a request without a bearer token
\* or with an invalid one and returns None in both cases; it returns the
\* user only when the token is valid.
Claim_C27 ==
    OptionalRequest =>
        /\ (caller.last.header # "bearer" \/ caller.last.sb # "user") =>
              (caller.last.user.raised = 0 /\ IsNone(caller.last.user.value))
        /\ ~IsNone(caller.last.user.value) =>
              (caller.last.header = "bearer" /\ caller.last.sb = "user")

\* The last request was a PUT or a DELETE on an identifier without a row.
UnknownId ==
    /\ caller.kind = "api"
    /\ caller.last.method \in {"PUT", "DELETE"}
    /\ ~caller.last.known

NotFoundNoWrite ==
    /\ caller.last.status = 404
    /\ caller.last.ops = <<"select">>
    /\ caller.table = caller.last.before

Admitted ==
    caller.router \in Protected =>
        (caller.last.header = "bearer" /\ caller.last.sb = "user")

Thm_C29 ==
    (/\ caller.kind = "api"
     /\ caller.last.method = "PUT"
     /\ caller.router \in EmptyFirst
     /\ caller.last.body = "vacio")
    => /\ caller.last.status = 400
       /\ caller.last.detail = SinDatos
       /\ caller.last.ops = <<>>
       /\ caller.table = caller.last.before

\* An empty PUT on an existing row of partidas_jugadores was answered 400.
Wit_C29 ==
    /\ caller.kind = "api"
    /\ caller.router = "partidas_jugadores"
    /\ caller.last.method = "PUT"
    /\ caller.last.body = "vacio"
    /\ caller.last.known
    /\ caller.last.status = 400
    /\ caller.last.ops = <<>>


\* ================================== concurrent create_partida_jugador
\* POST /partidas-jugadores/ (src/app/api/v1/partidas_jugadores.py). Every
\* call to supabase is one round trip to the backend; the handlers of two
\* requests served by different workers interleave between their calls.
\* runs[r] is request r, caller the backend: the rows of partidas_jugadores
\* and whether the table has a unique constraint on the pair (the schema is
\* not part of the sources, so both are possible).

Requests == {1, 2}

Partidas == {1}

Jugadores == {1, 2}

YaEsta == "El jugador ya está en esta partida"

NewRequest(partida_id, jugador_id) ==
    [pc |-> "partida_check", partida_id |-> partida_id, jugador_id |-> jugador_id,
     status |-> 0, detail |-> ""]

Responded(r, status, detail) ==
    runs' = [runs EXCEPT ![r] = [@ EXCEPT !.pc = "done", !.status = status,
                                          !.detail = detail]]

Proceeds(r, pc) == runs' = [runs EXCEPT ![r] = [@ EXCEPT !.pc = pc]]

PairOf(r) == <<runs[r].partida_id, runs[r].jugador_id>>

\* partida_check: the request's partida exists, or 404.
PartidaCheck(r) ==
    /\ caller.kind = "db"
    /\ runs[r].pc = "partida_check"
    /\ IF runs[r].partida_id \in Partidas
       THEN Proceeds(r, "jugador_check")
       ELSE Responded(r, 404, "La partida especificada no existe")
    /\ UNCHANGED <<uuidCount, now, personajes, ret, uuidBefore, caller>>

\* jugador_check: the request's jugador exists, or 404.
JugadorCheck(r) ==
    /\ caller.kind = "db"
    /\ runs[r].pc = "jugador_check"
    /\ IF runs[r].jugador_id \in Jugadores
       THEN Proceeds(r, "existing_check")
       ELSE Responded(r, 404, "El jugador especificado no existe")
    /\ UNCHANGED <<uuidCount, now, personajes, ret, uuidBefore, caller>>

\* existing_check: 400 when the table already has a row for the pair.
ExistingCheck(r) ==
    /\ caller.kind = "db"
    /\ runs[r].pc = "existing_check"
    /\ IF \E i \in DOMAIN caller.rows : caller.rows[i] = PairOf(r)
       THEN Responded(r, 400, YaEsta)
       ELSE Proceeds(r, "insert")
    /\ UNCHANGED <<uuidCount, now, personajes, ret, uuidBefore, caller>>

\* insert: the row is added and the request answered 201; a unique
\* constraint of the table makes the insert raise, which the handler answers
\* with 400 and the text of the error.
Insert(r) ==
    /\ caller.kind = "db"
    /\ runs[r].pc = "insert"
    /\ IF caller.unique /\ \E i \in DOMAIN caller.rows : caller.rows[i] = PairOf(r)
       THEN /\ Responded(r, 400, "Error al crear relación partida-jugador")
            /\ UNCHANGED caller
       ELSE /\ Responded(r, 201, "")
            /\ caller' = [caller EXCEPT !.rows = Append(@, PairOf(r))]
    /\ UNCHANGED <<uuidCount, now, personajes, ret, uuidBefore>>

InitCreate ==
    /\ uuidCount = 0
    /\ now = 0
    /\ personajes = None
    /\ ret = NoCall
    /\ uuidBefore = 0
    /\ runs \in [Requests -> {NewRequest(p, j) : p \in {1, 2}, j \in {1, 2, 3}}]
    /\ caller \in {[kind |-> "db", rows |-> <<>>, unique |-> u] : u \in BOOLEAN}

NextCreate ==
    \E r \in Requests :
        \/ PartidaCheck(r)
        \/ JugadorCheck(r)
        \/ ExistingCheck(r)
        \/ Insert(r)

SpecCreate == InitCreate /\ [][NextCreate]_vars

RowsOf(pair) == {i \in DOMAIN caller.rows : caller.rows[i] = pair}

\* C22: after any interleaving of concurrent create_partida_jugador
\* requests the table holds at most one row per (partida_id, jugador_id),
\* and of two requests for the same pair at most one inserts and the other
\* is rejected with 400 "El jugador ya está en esta partida".
Claim_C22 ==
    caller.kind = "db" =>
        /\ \A p \in Partidas, j \in Jugadores : Cardinality(RowsOf(<<p, j>>)) <= 1
        /\ \A r, q \in Requests :
              (r # q /\ PairOf(r) = PairOf(q) /\ runs[r].pc = "done"
                     /\ runs[q].pc = "done" /\ runs[r].status = 201) =>
                 (runs[q].status = 400 /\ runs[q].detail = YaEsta)

====
